---- MODULE Spec2Model ----
(***************************************************************************)
(* Model of the price snapshot service core:                               *)
(*   - pkg/retry: Do, calculateBackoff, IsRetryable                        *)
(*   - services.MetricsService: RecordPollSuccess / RecordPollError /      *)
(*     GetMetrics under its RWMutex                                        *)
(*   - services.PollerService.PollPrices and worker.Poller                 *)
(*   - binance.Client.GetPrices and postgres CreateBatch                   *)
(* The specifications share the variables: SpecRetry (one retry.Do call    *)
(* against an arbitrary work function), SpecMetrics (concurrent callers of *)
(* MetricsService), Spec (the poller loop driving PollPrices cycles as the *)
(* application runs it), SpecPoller and SpecPollerFair (arbitrary callers  *)
(* of Start and Stop), SpecDeadline (the timing of a poll), SpecRepo       *)
(* (CreateBatch) and SpecClient (GetPrices).                               *)
(***************************************************************************)
EXTENDS Integers, Sequences, FiniteSets, TLC

VARIABLES
    cfg,        \* retry.Config of the Do call under SpecRetry
    do,         \* locals and position of the retry.Do call
    results,    \* errors returned by the work function, in call order
    ctxErr,     \* state of the governing context: "none" until cancelled
    m,          \* the MetricsService fields guarded by mu
    mu,         \* MetricsService.mu: the writer holding it and the readers
    mth,        \* callers of MetricsService: position and locals of each
    clock,      \* the latest value time.Now() has returned
    doneSucc,   \* RecordPollSuccess calls that have returned
    doneErr,    \* RecordPollError calls that have returned
    running,    \* Poller.running
    stopCh,     \* Poller.stopCh: the channel the field refers to
    doneCh,     \* Poller.doneCh
    pmu,        \* Poller.mu: "free" or the thread holding it
    closed,     \* the channels that have been closed
    nextChan,   \* the next channel make() returns
    panicked,   \* a close of a closed channel has panicked
    lp,         \* callers of Poller.Start: position, loop and cycle locals
    sp,         \* callers of Poller.Stop: position and locals
    ctxDone,    \* whether the context a Start caller passed is cancelled
    starts,     \* Start calls made
    stops,      \* Stop calls made
    tm,         \* Poller.interval and the pollCtx of one Poller.poll call
    repo,       \* the snapshots table and one CreateBatch call on it
    gp          \* one Client.GetPrices call: arguments, locals and result

retryVars == <<cfg, do, results, ctxErr>>

metricsVars == <<m, mu, mth, clock, doneSucc, doneErr>>

pollerVars ==
    <<running, stopCh, doneCh, pmu, closed, nextChan, panicked, lp, sp, ctxDone,
      starts, stops>>

pollerVarsButLp ==
    <<running, stopCh, doneCh, pmu, closed, nextChan, panicked, sp, ctxDone,
      starts, stops>>

vars ==
    <<cfg, do, results, ctxErr, m, mu, mth, clock, doneSucc, doneErr,
      running, stopCh, doneCh, pmu, closed, nextChan, panicked, lp, sp, ctxDone,
      starts, stops, tm, repo, gp>>

otherVars == <<tm, repo, gp>>

(***************************************************************************)
(* Bounds of the model                                                     *)
(***************************************************************************)
MaxRetriesBound == 2
MaxInitialBackoff == 1
MaxBackoffBound == 2
MaxMultiplier == 2
MaxRecordCalls == 3
MaxDuration == 1
MaxClock == 1
MaxCycles == 2
MaxStarts == 2
MaxStops == 2
Second == 2
MaxPolls == 2
MaxBatchLen == 3
MaxBatchCalls == 2

(***************************************************************************)
(* Errors.  An error value carries the identity of the work-function call  *)
(* that produced it, so that "the error returned" can be compared.         *)
(*   tag "nil"       : nil                                                 *)
(*   tag "plain"     : an error with no *RetryableError in its chain       *)
(*   tag "retryable" : *RetryableError (NewRetryableError)                 *)
(*   tag "wrapped"   : an error wrapping a *RetryableError (%w)            *)
(*   tag "ctx"       : ctx.Err(); id 1 = Canceled, 2 = DeadlineExceeded    *)
(***************************************************************************)
NoErr == [tag |-> "nil", id |-> 0]

NewRetryableError(i) == [tag |-> "retryable", id |-> i]

PlainError(i) == [tag |-> "plain", id |-> i]

WrappedError(i) == [tag |-> "wrapped", id |-> i]

CtxError(e) == [tag |-> "ctx", id |-> IF e = "Canceled" THEN 1 ELSE 2]

IsRetryableAnyError(err) == err.tag # "nil"

\* errors.As(err, &retryable): a *RetryableError anywhere in the chain
IsRetryable(err) == err.tag \in {"retryable", "wrapped"}

(***************************************************************************)
(* calculateBackoff.  Durations are whole units; Jitter is a percentage.   *)
(* r is the draw rand.Float64()*2-1 in percent, -100..99.                  *)
(***************************************************************************)
RECURSIVE Pow(_, _)
Pow(b, e) == IF e <= 0 THEN 1 ELSE b * Pow(b, e - 1)

\* truncation toward zero of n/d (time.Duration(float64))
TruncDiv(n, d) == IF n >= 0 THEN n \div d ELSE 0 - ((0 - n) \div d)

\* the backoff before jitter without the cap of lines 123-125
BaseBackoffUncapped(c, attempt) ==
    c.InitialBackoff * Pow(c.Multiplier, attempt - 1)

\* backoff.go:120-125, the backoff before jitter
BaseBackoff(c, attempt) ==
    LET raw == c.InitialBackoff * Pow(c.Multiplier, attempt - 1)
    IN  IF raw > c.MaxBackoff THEN c.MaxBackoff ELSE raw

\* backoff.go:119-139
calculateBackoff(c, attempt, r) ==
    LET base == BaseBackoff(c, attempt)
        jittered == IF c.Jitter > 0
                    THEN TruncDiv(base * 100 * 100 + base * c.Jitter * r, 100 * 100)
                    ELSE base
    IN  IF jittered < 0 THEN c.InitialBackoff ELSE jittered

\* the draws of rand.Float64()*2-1 the model distinguishes
JitterDraws == {0 - 100, 0, 99}

(***************************************************************************)
(* retry.Do as a state machine over its locals.                            *)
(*   pc "loop"   : at the for condition (line 59)                          *)
(*   pc "select" : timer armed, about to evaluate the select (line 63)     *)
(*   pc "parked" : blocked in the select, no case was ready                *)
(*   pc "call"   : about to invoke fn (line 70)                            *)
(*   pc "done"   : returned; ret is the returned error                     *)
(*   pc "idle"   : no call in progress                                     *)
(* ctxAtReturn is the state the context was in when fn last returned.      *)
(***************************************************************************)
DoIdle ==
    [pc |-> "idle", attempt |-> 0, lastErr |-> NoErr, ret |-> NoErr,
     backoff |-> 0, timerReady |-> FALSE, woken |-> "none", ctxAtReturn |-> "none"]

\* backoff.go:57-59, entry of Do
DoEnter == [DoIdle EXCEPT !.pc = "loop"]

LoopCondStrict(c, d) == d.attempt < c.MaxRetries

\* backoff.go:59, the for condition
LoopCond(c, d) == d.attempt <= c.MaxRetries

\* backoff.go:59-61 and 83: loop head; arms the backoff timer for a retry
DoLoop(c, d, r) ==
    IF LoopCond(c, d)
    THEN IF d.attempt > 0
         THEN [d EXCEPT !.pc = "select",
                        !.backoff = calculateBackoff(c, d.attempt, r),
                        !.timerReady = FALSE,
                        !.woken = "none"]
         ELSE [d EXCEPT !.pc = "call"]
    ELSE [d EXCEPT !.pc = "done", !.ret = d.lastErr]

\* ReadyCases, were ctx.Done() not among the cases of the select
ReadyCasesTimerOnly(d, e) == IF d.timerReady THEN {"timer"} ELSE {}

\* the cases of the select at backoff.go:63-67 that are ready
ReadyCases(d, e) ==
    (IF e # "none" THEN {"ctx"} ELSE {}) \cup (IF d.timerReady THEN {"timer"} ELSE {})

DoSelectedIgnoresCtx(d, e, k) == [d EXCEPT !.pc = "call"]

\* backoff.go:64-67: the outcome of the select once case k was chosen
DoSelected(d, e, k) ==
    IF k = "ctx"
    THEN [d EXCEPT !.pc = "done", !.ret = CtxError(e)]
    ELSE [d EXCEPT !.pc = "call"]

RememberFirstErr(d, err) == IF d.lastErr = NoErr THEN err ELSE d.lastErr

\* backoff.go:75, the error remembered for the final return
RememberErr(d, err) == err

SuccessReturnsLastErr(d) == d.lastErr

\* backoff.go:71-73, the error returned when fn succeeded
SuccessReturn(d) == NoErr

\* backoff.go:70-80: fn returned err
DoCall(d, err) ==
    IF err = NoErr
    THEN [d EXCEPT !.pc = "done", !.ret = SuccessReturn(d)]
    ELSE IF ~IsRetryable(err)
         THEN [d EXCEPT !.pc = "done", !.lastErr = RememberErr(d, err), !.ret = err]
         ELSE [d EXCEPT !.pc = "loop", !.lastErr = RememberErr(d, err),
                        !.attempt = d.attempt + 1]

\* a goroutine parked in the select is woken by the first case to become ready
WakeBy(d, k) ==
    IF d.pc = "parked" /\ d.woken = "none" THEN [d EXCEPT !.woken = k] ELSE d

(***************************************************************************)
(* services.MetricsService                                                 *)
(***************************************************************************)
NoTime == 0 - 1

\* snapshot_service.go:230-259: the zero-valued fields after NewMetricsService
MetricsZero ==
    [lastPollTime |-> NoTime, lastPollDuration |-> 0,
     pollSuccessCount |-> 0, pollErrorCount |-> 0, totalPollTime |-> 0]

\* the fields GetMetrics copies (snapshot_service.go:264-267)
View(mm) ==
    [lastPollTime |-> mm.lastPollTime, lastPollDuration |-> mm.lastPollDuration,
     pollSuccessCount |-> mm.pollSuccessCount, pollErrorCount |-> mm.pollErrorCount]

\* time.Now(): the clock has not gone back, and may have advanced
NowValues == {t \in {clock, clock + 1} : t <= MaxClock}

CanLockAlways(u) == TRUE

\* sync.RWMutex.Lock: no writer and no reader holds the mutex
CanLock(u) == u.writer = "none" /\ u.readers = {}

CanRLockAlways(u) == TRUE

\* sync.RWMutex.RLock: no writer holds the mutex
CanRLock(u) == u.writer = "none"

\* snapshot_service.go:321-322 / 333-334
SetPollTime(mm, now) == [mm EXCEPT !.lastPollTime = now]

\* snapshot_service.go:323 / 335
SetPollDuration(mm, d) == [mm EXCEPT !.lastPollDuration = d]

\* the counter a record call of this kind increments
Counter(mm, kind) ==
    IF kind = "success" THEN mm.pollSuccessCount ELSE mm.pollErrorCount

\* StoreCounter, were RecordPollError to count into pollSuccessCount
StoreCounterSuccessOnly(mm, kind, v) == [mm EXCEPT !.pollSuccessCount = v]

\* snapshot_service.go:324 / 336, the store half of the ++
StoreCounter(mm, kind, v) ==
    IF kind = "success"
    THEN [mm EXCEPT !.pollSuccessCount = v]
    ELSE [mm EXCEPT !.pollErrorCount = v]

\* AddTotal, were the total overwritten by the latest duration
AddTotalOverwrites(mm, d) == [mm EXCEPT !.totalPollTime = d]

\* snapshot_service.go:325 / 337
AddTotal(mm, d) == [mm EXCEPT !.totalPollTime = mm.totalPollTime + d]

\* the whole of RecordPollSuccess / RecordPollError(d) run without interruption
RecordPoll(mm, kind, d, now) ==
    AddTotal(StoreCounter(SetPollDuration(SetPollTime(mm, now), d),
                          kind, Counter(mm, kind) + 1), d)

Writers == {"w1", "w2"}

Readers == {"r1"}

Durations == 0..MaxDuration

\* a caller outside any call; passed is the sum of the durations it has handed
\* to record calls so far
ThreadIdle ==
    [pc |-> "idle", kind |-> "none", d |-> 0, tmp |-> 0, snap |-> View(MetricsZero),
     passed |-> 0]

(***************************************************************************)
(* services.PollerService.PollPrices and the binance client's GetPrices    *)
(***************************************************************************)
SymBTC == [ID |-> 1, Name |-> "BTCUSDT"]

SymETH == [ID |-> 2, Name |-> "ETHUSDT"]

\* what symbolRepo.ListActive may return when it succeeds
ActiveOptions == {<<>>, <<SymBTC>>, <<SymBTC, SymETH>>}

Ticker(sym, price) == [symbol |-> sym, price |-> price]

\* bodies of a 200 response that decode into []tickerResponse
TickerOptions ==
    {<<>>,
     <<Ticker("BTCUSDT", "1.5")>>,
     <<Ticker("BTCUSDT", "1.5"), Ticker("ETHUSDT", "1.5")>>,
     <<Ticker("XRPUSDT", "1.5")>>,
     <<Ticker("ETHUSDT", "x"), Ticker("BTCUSDT", "1.5")>>}

\* what c.httpClient.Do may produce
Responses ==
    {[kind |-> "neterr", status |-> 0, decodes |-> FALSE, tickers |-> <<>>]}
    \cup {[kind |-> "http", status |-> st, decodes |-> FALSE, tickers |-> <<>>] :
             st \in {200, 204, 400, 429, 500, 503}}
    \cup {[kind |-> "http", status |-> 200, decodes |-> TRUE, tickers |-> tk] :
             tk \in TickerOptions}

\* decimal.NewFromString on the price strings of the model
ParsePrice(str) ==
    IF str = "1.5" THEN [ok |-> TRUE, val |-> 15] ELSE [ok |-> FALSE, val |-> 0]

RECURSIVE ParseTickers(_)
\* snapshot_service.go:618-629: tickers with an unparsable price are skipped
ParseTickers(tk) ==
    IF tk = <<>> THEN <<>>
    ELSE LET t == Head(tk)
             p == ParsePrice(t.price)
         IN  (IF p.ok THEN <<[Symbol |-> t.symbol, Price |-> p.val]>> ELSE <<>>)
                 \o ParseTickers(Tail(tk))

\* FetchAttempt, were a 429 answer not wrapped in a RetryableError
FetchAttemptRateLimitTerminal(resp, i, prev) ==
    IF resp.kind = "neterr"
    THEN [err |-> NewRetryableError(i), prices |-> prev]
    ELSE IF resp.status >= 500
    THEN [err |-> NewRetryableError(i), prices |-> prev]
    ELSE IF resp.status # 200
    THEN [err |-> PlainError(i), prices |-> prev]
    ELSE IF ~resp.decodes
    THEN [err |-> PlainError(i), prices |-> prev]
    ELSE [err |-> NoErr, prices |-> ParseTickers(resp.tickers)]

\* snapshot_service.go:572-632: one run of the closure GetPrices hands to
\* retry.Do, on response resp of the i-th request; prev is the result so far
FetchAttempt(resp, i, prev) ==
    IF resp.kind = "neterr"
    THEN [err |-> NewRetryableError(i), prices |-> prev]
    ELSE IF resp.status = 429
    THEN [err |-> NewRetryableError(i), prices |-> prev]
    ELSE IF resp.status >= 500
    THEN [err |-> NewRetryableError(i), prices |-> prev]
    ELSE IF resp.status # 200
    THEN [err |-> PlainError(i), prices |-> prev]
    ELSE IF ~resp.decodes
    THEN [err |-> PlainError(i), prices |-> prev]
    ELSE [err |-> NoErr, prices |-> ParseTickers(resp.tickers)]

\* snapshot_service.go:157-163, the names in symbolMap
ActiveNames(symbols) == {symbols[i].Name : i \in 1..Len(symbols)}

\* symbolMap[name]
SymbolByName(symbols, name) ==
    symbols[CHOOSE i \in 1..Len(symbols) :
                /\ symbols[i].Name = name
                /\ \A j \in (i + 1)..Len(symbols) : symbols[j].Name # name]

RECURSIVE BuildSnapshotsUnfiltered(_, _, _)
\* BuildSnapshots, were the symbolMap lookup not to filter the quotes
BuildSnapshotsUnfiltered(symbols, prices, now) ==
    IF prices = <<>> THEN <<>>
    ELSE LET price == Head(prices)
         IN  <<[SymbolID |-> IF price.Symbol \in ActiveNames(symbols)
                             THEN SymbolByName(symbols, price.Symbol).ID
                             ELSE 0,
                Symbol |-> price.Symbol,
                Price |-> price.Price,
                Timestamp |-> now]>>
                 \o BuildSnapshotsUnfiltered(symbols, Tail(prices), now)

RECURSIVE BuildSnapshotsStampedEach(_, _, _)
\* BuildSnapshots, were time.Now() read for every point
BuildSnapshotsStampedEach(symbols, prices, now) ==
    IF prices = <<>> THEN <<>>
    ELSE LET price == Head(prices)
         IN  (IF price.Symbol \in ActiveNames(symbols)
              THEN <<[SymbolID |-> SymbolByName(symbols, price.Symbol).ID,
                      Symbol |-> price.Symbol,
                      Price |-> price.Price,
                      Timestamp |-> now]>>
              ELSE <<>>)
                 \o BuildSnapshotsStampedEach(symbols, Tail(prices), now + 1)

RECURSIVE BuildSnapshots(_, _, _)
\* snapshot_service.go:176-187
BuildSnapshots(symbols, prices, now) ==
    IF prices = <<>> THEN <<>>
    ELSE LET price == Head(prices)
         IN  (IF price.Symbol \in ActiveNames(symbols)
              THEN <<[SymbolID |-> SymbolByName(symbols, price.Symbol).ID,
                      Symbol |-> price.Symbol,
                      Price |-> price.Price,
                      Timestamp |-> now]>>
              ELSE <<>>)
                 \o BuildSnapshots(symbols, Tail(prices), now)

\* A step of PollPrices decides where the cycle goes next, which outcome it
\* records ("none", "success", "error"), what it returns and the path taken.
Decision(next, rec, ret, path) ==
    [next |-> next, rec |-> rec, ret |-> ret, path |-> path]

\* AfterList, were an empty list of symbols counted as a successful poll
AfterListRecordsEmpty(err, symbols) ==
    IF err # NoErr
    THEN Decision("polled", "error", err, "listfail")
    ELSE IF Len(symbols) = 0
    THEN Decision("polled", "success", NoErr, "empty")
    ELSE Decision("fetch", "none", NoErr, "none")

\* snapshot_service.go:145-155: after symbolRepo.ListActive returned
AfterList(err, symbols) ==
    IF err # NoErr
    THEN Decision("polled", "error", err, "listfail")
    ELSE IF Len(symbols) = 0
    THEN Decision("polled", "none", NoErr, "empty")
    ELSE Decision("fetch", "none", NoErr, "none")

\* AfterFetch, were an empty batch handed to CreateBatch all the same
AfterFetchPersistsEmpty(err, snapshots) ==
    IF err # NoErr
    THEN Decision("polled", "error", err, "fetchfail")
    ELSE Decision("persist", "none", NoErr, "none")

\* AfterFetch, were the empty batch to return without recording an outcome
AfterFetchSilentNoBatch(err, snapshots) ==
    IF err # NoErr
    THEN Decision("polled", "error", err, "fetchfail")
    ELSE IF Len(snapshots) = 0
    THEN Decision("polled", "none", NoErr, "nobatch")
    ELSE Decision("persist", "none", NoErr, "none")

\* snapshot_service.go:168-193: after exchange.GetPrices returned
AfterFetch(err, snapshots) ==
    IF err # NoErr
    THEN Decision("polled", "error", err, "fetchfail")
    ELSE IF Len(snapshots) = 0
    THEN Decision("polled", "success", NoErr, "nobatch")
    ELSE Decision("persist", "none", NoErr, "none")

\* AfterPersist, were the failure recorded and nil returned all the same
AfterPersistRecordsButReturnsNil(err) ==
    IF err # NoErr
    THEN Decision("polled", "error", NoErr, "persistfail")
    ELSE Decision("polled", "success", NoErr, "ok")

\* AfterPersist, were the error of CreateBatch logged and swallowed
AfterPersistSwallowsError(err) ==
    IF err # NoErr
    THEN Decision("polled", "success", NoErr, "persistfail")
    ELSE Decision("polled", "success", NoErr, "ok")

\* snapshot_service.go:196-211: after snapshotRepo.CreateBatch returned
AfterPersist(err) ==
    IF err # NoErr
    THEN Decision("polled", "error", err, "persistfail")
    ELSE Decision("polled", "success", NoErr, "ok")

\* the locals of one PollPrices call, with what the cycle did so far; woken
\* is, when retry.Do returned the context's error, the case that woke it from
\* a blocked backoff wait ("none" when it did not block)
CycIdle ==
    [start |-> 0, m0 |-> MetricsZero, symbols |-> <<>>, prices |-> <<>>,
     batch |-> <<>>, persisted |-> <<>>, exCalls |-> 0, stCalls |-> 0,
     recS |-> 0, recE |-> 0, path |-> "none", ret |-> NoErr, woken |-> "none"]

\* the cycle locals after a decision that recorded outcome dec.rec
CycAfter(c, dec) ==
    [c EXCEPT !.recS = c.recS + (IF dec.rec = "success" THEN 1 ELSE 0),
              !.recE = c.recE + (IF dec.rec = "error" THEN 1 ELSE 0),
              !.path = dec.path,
              !.ret = dec.ret]

\* p.metrics.RecordPollSuccess / RecordPollError(time.Since(start)), or neither
ApplyRec(mm, rec, d, now) ==
    IF rec = "none" THEN mm ELSE RecordPoll(mm, rec, d, now)

(***************************************************************************)
(* worker.Poller                                                           *)
(***************************************************************************)
Starters == {"s1", "s2"}

Stoppers == {"p1", "p2"}

\* a Start caller outside any call
LoopIdle ==
    [pc |-> "idle", ret |-> NoErr, noop |-> FALSE, tick |-> FALSE,
     pollErr |-> "none", do |-> DoIdle, cyc |-> CycIdle, ncyc |-> 0, prevListFailed |-> FALSE]

\* a Stop caller outside any call; sig is the stop channel the call closed and
\* ch the done channel its select waits on
StopIdle ==
    [pc |-> "idle", ret |-> NoErr, noop |-> FALSE, sig |-> 0, ch |-> 0,
     timerFired |-> FALSE]

\* the positions of a Start caller that are inside PollPrices
InCycle(l) == l.pc \in {"list", "fetch", "persist"}

\* the positions of a Start caller at which its loop is alive
InLoop(l) == l.pc \in {"list", "fetch", "persist", "polled", "select"}

\* poller.go:79-89: poll() derives pollCtx and PollPrices starts its clock
BeginCycle(l, parentDone, now, mm) ==
    [l EXCEPT !.pc = "list",
              !.pollErr = IF parentDone THEN "Canceled" ELSE "none",
              !.do = DoIdle,
              !.cyc = [CycIdle EXCEPT !.start = now, !.m0 = mm],
              !.ncyc = l.ncyc + 1]

\* AfterPoll, were a failed poll to end the loop
AfterPollExitsOnError(l) ==
    [l EXCEPT !.pc = IF l.cyc.ret # NoErr THEN "close_done" ELSE "select",
              !.ret = l.cyc.ret,
              !.pollErr = "none",
              !.cyc = CycIdle,
              !.prevListFailed = (l.cyc.path = "listfail")]

\* poller.go:87-92, 53-56: poll logs the error of PollPrices, if any, and
\* returns; Start goes on to its select. prevListFailed remembers whether the
\* cycle that just ended failed in ListActive.
AfterPoll(l) ==
    [l EXCEPT !.pc = "select",
              !.pollErr = "none",
              !.cyc = CycIdle,
              !.prevListFailed = (l.cyc.path = "listfail")]

\* LoopLeft, were the loop to return without close(p.doneCh)
LoopLeftSkipsClose(l, ret) == [l EXCEPT !.pc = "exit_lock", !.ret = ret]

\* poller.go:57-59, 65-67: the loop leaves its select by the ctx or the stop
\* case, with the value Start will return, and goes on to close(p.doneCh)
LoopLeft(l, ret) == [l EXCEPT !.pc = "close_done", !.ret = ret]

\* LoopReady, were the select to have no case for p.stopCh
LoopReadyIgnoresStop(l, parentDone, stopClosed) ==
    (IF parentDone THEN {"ctx"} ELSE {})
        \cup (IF l.tick THEN {"tick"} ELSE {})

\* LoopReady, were the loop to poll again without waiting for the ticker
LoopReadyWithoutTick(l, parentDone, stopClosed) ==
    (IF parentDone THEN {"ctx"} ELSE {})
        \cup (IF stopClosed THEN {"stop"} ELSE {})
        \cup {"tick"}

\* the cases of the select at poller.go:56-75 that are ready
LoopReady(l, parentDone, stopClosed) ==
    (IF parentDone THEN {"ctx"} ELSE {})
        \cup (IF stopClosed THEN {"stop"} ELSE {})
        \cup (IF l.tick THEN {"tick"} ELSE {})

(***************************************************************************)
(* Initial values of the three groups of variables                         *)
(***************************************************************************)
MetricsIdle ==
    /\ m = MetricsZero
    /\ mu = [writer |-> "none", readers |-> {}]
    /\ mth = [t \in Writers \cup Readers |-> ThreadIdle]
    /\ clock = 0
    /\ doneSucc = 0
    /\ doneErr = 0

RetryIdle ==
    /\ cfg = [MaxRetries |-> 0, InitialBackoff |-> 0, MaxBackoff |-> 0,
              Multiplier |-> 1, Jitter |-> 0]
    /\ do = DoIdle
    /\ results = <<>>
    /\ ctxErr = "none"

\* poller.go:43-44 and 29-30: the done channel made together with stop channel c
DoneOf(c) == c + 1

\* poll, were it to raise the timeout to 10 s
pollTimeoutFloorTenSeconds(interval) ==
    IF TruncDiv(interval, 2) < 2 * 5 * Second THEN 2 * 5 * Second ELSE TruncDiv(interval, 2)

\* poll, were it to use half the interval whatever its size
pollTimeoutNoFloor(interval) == TruncDiv(interval, 2)

\* poller.go:81-84: pollTimeout := p.interval / 2, raised to 5 s if less
pollTimeout(interval) ==
    IF TruncDiv(interval, 2) < 5 * Second THEN 5 * Second ELSE TruncDiv(interval, 2)

\* no poller timing, no table and no client call in the model. due is the
\* instant the ticker fires next, tick the instant of the tick waiting in
\* ticker.C and onTick the instant of the tick that began the cycle (NoTime:
\* none)
TimingIdle ==
    [pc |-> "idle", interval |-> 0, now |-> 0, start |-> 0, deadline |-> 0,
     pollCtx |-> "none", npoll |-> 0, used |-> {},
     due |-> 0, tick |-> NoTime, onTick |-> NoTime]

\* the snapshots table is empty and no CreateBatch call has been made. rows
\* are the committed rows, pending the rows inserted in the open
\* transaction, seen what the last query of another session returned.
RepoIdle ==
    [pc |-> "idle", rows |-> {}, pending |-> {}, seen |-> {}, n |-> 0, i |-> 0,
     ret |-> NoErr, calls |-> 0]

\* no GetPrices call has been made. reqs are the responses to the requests
\* sent so far, entered tells whether retry.Do was called.
ClientIdle ==
    [pc |-> "idle", symbols |-> <<>>, reqs |-> <<>>, result |-> <<>>, ret |-> NoErr,
     entered |-> FALSE]

OthersIdle ==
    /\ tm = TimingIdle
    /\ repo = RepoIdle
    /\ gp = ClientIdle

\* poller.go:25-33, NewPoller
PollerIdle ==
    /\ running = FALSE
    /\ stopCh = 1
    /\ doneCh = 2
    /\ pmu = "free"
    /\ closed = {}
    /\ nextChan = 3
    /\ panicked = FALSE
    /\ lp = [t \in Starters |-> LoopIdle]
    /\ sp = [q \in Stoppers |-> StopIdle]
    /\ ctxDone = [t \in Starters |-> FALSE]
    /\ starts = 0
    /\ stops = 0

(***************************************************************************)
(* SpecRetry: one Do call, an arbitrary work function, a cancellable ctx.  *)
(***************************************************************************)
Policies ==
    [MaxRetries : (0 - 1)..MaxRetriesBound,
     InitialBackoff : 0..MaxInitialBackoff,
     MaxBackoff : 1..MaxBackoffBound,
     Multiplier : {1, MaxMultiplier},
     Jitter : {0, 100}]

\* what the work function may return on its i-th call
WorkResults(i) == {NoErr, NewRetryableError(i), WrappedError(i), PlainError(i)}

InitRetry ==
    /\ cfg \in Policies
    /\ do = DoEnter
    /\ results = <<>>
    /\ ctxErr = "none"
    /\ MetricsIdle
    /\ PollerIdle
    /\ OthersIdle

RetryLoop ==
    /\ do.pc = "loop"
    /\ \E r \in JitterDraws : do' = DoLoop(cfg, do, r)
    /\ UNCHANGED <<cfg, results, ctxErr>>
    /\ UNCHANGED metricsVars
    /\ UNCHANGED pollerVars
    /\ UNCHANGED otherVars

RetrySelect ==
    /\ do.pc = "select"
    /\ IF ReadyCases(do, ctxErr) = {}
       THEN do' = [do EXCEPT !.pc = "parked"]
       ELSE \E k \in ReadyCases(do, ctxErr) : do' = DoSelected(do, ctxErr, k)
    /\ UNCHANGED <<cfg, results, ctxErr>>
    /\ UNCHANGED metricsVars
    /\ UNCHANGED pollerVars
    /\ UNCHANGED otherVars

RetryWake ==
    /\ do.pc = "parked"
    /\ do.woken # "none"
    /\ do' = DoSelected(do, ctxErr, do.woken)
    /\ UNCHANGED <<cfg, results, ctxErr>>
    /\ UNCHANGED metricsVars
    /\ UNCHANGED pollerVars
    /\ UNCHANGED otherVars

RetryCall ==
    /\ do.pc = "call"
    /\ \E err \in WorkResults(Len(results) + 1) :
          /\ results' = Append(results, err)
          /\ do' = [DoCall(do, err) EXCEPT !.ctxAtReturn = ctxErr]
    /\ UNCHANGED <<cfg, ctxErr>>
    /\ UNCHANGED metricsVars
    /\ UNCHANGED pollerVars
    /\ UNCHANGED otherVars

\* the governing context is cancelled (or its deadline passes)
RetryCancel ==
    /\ ctxErr = "none"
    /\ do.pc # "done"
    /\ \E e \in {"Canceled", "DeadlineExceeded"} : ctxErr' = e
    /\ do' = WakeBy(do, "ctx")
    /\ UNCHANGED <<cfg, results>>
    /\ UNCHANGED metricsVars
    /\ UNCHANGED pollerVars
    /\ UNCHANGED otherVars

\* the backoff elapses: the timer of time.After fires and its channel is ready
RetryTimerFire ==
    /\ do.pc \in {"select", "parked"}
    /\ ~do.timerReady
    /\ do' = WakeBy([do EXCEPT !.timerReady = TRUE], "timer")
    /\ UNCHANGED <<cfg, results, ctxErr>>
    /\ UNCHANGED metricsVars
    /\ UNCHANGED pollerVars
    /\ UNCHANGED otherVars

NextRetry ==
    \/ RetryLoop
    \/ RetrySelect
    \/ RetryWake
    \/ RetryCall
    \/ RetryCancel
    \/ RetryTimerFire

SpecRetry == InitRetry /\ [][NextRetry]_vars

(***************************************************************************)
(* SpecMetrics: concurrent callers of one MetricsService.                  *)
(***************************************************************************)
InitMetrics == RetryIdle /\ MetricsIdle /\ PollerIdle /\ OthersIdle

\* RecordPollSuccess(d) / RecordPollError(d) is called and takes the lock
\* (snapshot_service.go:317-319, 329-331)
RecordLock(t) ==
    /\ mth[t].pc = "idle"
    /\ doneSucc + doneErr + Cardinality({w \in Writers : mth[w].pc # "idle"})
          < MaxRecordCalls
    /\ CanLock(mu)
    /\ \E kind \in {"success", "error"}, d \in Durations :
          mth' = [mth EXCEPT ![t] = [@ EXCEPT !.pc = "time", !.kind = kind, !.d = d,
                                              !.passed = @ + d]]
    /\ mu' = [mu EXCEPT !.writer = t]
    /\ UNCHANGED <<m, clock, doneSucc, doneErr>>
    /\ UNCHANGED retryVars
    /\ UNCHANGED pollerVars
    /\ UNCHANGED otherVars

\* now := time.Now(); m.lastPollTime = &now
RecordTime(t) ==
    /\ mth[t].pc = "time"
    /\ \E now \in NowValues :
          /\ clock' = now
          /\ m' = SetPollTime(m, now)
    /\ mth' = [mth EXCEPT ![t].pc = "dur"]
    /\ UNCHANGED <<mu, doneSucc, doneErr>>
    /\ UNCHANGED retryVars
    /\ UNCHANGED pollerVars
    /\ UNCHANGED otherVars

\* m.lastPollDuration = duration
RecordDur(t) ==
    /\ mth[t].pc = "dur"
    /\ m' = SetPollDuration(m, mth[t].d)
    /\ mth' = [mth EXCEPT ![t].pc = "load"]
    /\ UNCHANGED <<mu, clock, doneSucc, doneErr>>
    /\ UNCHANGED retryVars
    /\ UNCHANGED pollerVars
    /\ UNCHANGED otherVars

\* the load half of m.pollSuccessCount++ / m.pollErrorCount++
RecordLoad(t) ==
    /\ mth[t].pc = "load"
    /\ mth' = [mth EXCEPT ![t] = [@ EXCEPT !.pc = "store", !.tmp = Counter(m, mth[t].kind)]]
    /\ UNCHANGED <<m, mu, clock, doneSucc, doneErr>>
    /\ UNCHANGED retryVars
    /\ UNCHANGED pollerVars
    /\ UNCHANGED otherVars

\* the store half of the ++
RecordStore(t) ==
    /\ mth[t].pc = "store"
    /\ m' = StoreCounter(m, mth[t].kind, mth[t].tmp + 1)
    /\ mth' = [mth EXCEPT ![t].pc = "total"]
    /\ UNCHANGED <<mu, clock, doneSucc, doneErr>>
    /\ UNCHANGED retryVars
    /\ UNCHANGED pollerVars
    /\ UNCHANGED otherVars

\* m.totalPollTime += duration
RecordTotal(t) ==
    /\ mth[t].pc = "total"
    /\ m' = AddTotal(m, mth[t].d)
    /\ mth' = [mth EXCEPT ![t].pc = "unlock"]
    /\ UNCHANGED <<mu, clock, doneSucc, doneErr>>
    /\ UNCHANGED retryVars
    /\ UNCHANGED pollerVars
    /\ UNCHANGED otherVars

\* the deferred m.mu.Unlock(); the call returns
RecordUnlock(t) ==
    /\ mth[t].pc = "unlock"
    /\ mu' = [mu EXCEPT !.writer = "none"]
    /\ mth' = [mth EXCEPT ![t].pc = "idle"]
    /\ doneSucc' = doneSucc + (IF mth[t].kind = "success" THEN 1 ELSE 0)
    /\ doneErr' = doneErr + (IF mth[t].kind = "error" THEN 1 ELSE 0)
    /\ UNCHANGED <<m, clock>>
    /\ UNCHANGED retryVars
    /\ UNCHANGED pollerVars
    /\ UNCHANGED otherVars

\* GetMetrics: m.mu.RLock() (snapshot_service.go:263)
GetMetricsRLock(t) ==
    /\ mth[t].pc \in {"idle", "returned"}
    /\ CanRLock(mu)
    /\ mu' = [mu EXCEPT !.readers = @ \cup {t}]
    /\ mth' = [mth EXCEPT ![t] = [@ EXCEPT !.pc = "rtime", !.snap = View(MetricsZero)]]
    /\ UNCHANGED <<m, clock, doneSucc, doneErr>>
    /\ UNCHANGED retryVars
    /\ UNCHANGED pollerVars
    /\ UNCHANGED otherVars

\* lastPollTime := m.lastPollTime
GetMetricsReadTime(t) ==
    /\ mth[t].pc = "rtime"
    /\ mth' = [mth EXCEPT ![t] = [@ EXCEPT !.pc = "rdur",
                                           !.snap.lastPollTime = m.lastPollTime]]
    /\ UNCHANGED <<m, mu, clock, doneSucc, doneErr>>
    /\ UNCHANGED retryVars
    /\ UNCHANGED pollerVars
    /\ UNCHANGED otherVars

\* lastPollDuration := m.lastPollDuration
GetMetricsReadDur(t) ==
    /\ mth[t].pc = "rdur"
    /\ mth' = [mth EXCEPT ![t] = [@ EXCEPT !.pc = "rsucc",
                                           !.snap.lastPollDuration = m.lastPollDuration]]
    /\ UNCHANGED <<m, mu, clock, doneSucc, doneErr>>
    /\ UNCHANGED retryVars
    /\ UNCHANGED pollerVars
    /\ UNCHANGED otherVars

\* pollSuccessCount := m.pollSuccessCount
GetMetricsReadSucc(t) ==
    /\ mth[t].pc = "rsucc"
    /\ mth' = [mth EXCEPT ![t] = [@ EXCEPT !.pc = "rerr",
                                           !.snap.pollSuccessCount = m.pollSuccessCount]]
    /\ UNCHANGED <<m, mu, clock, doneSucc, doneErr>>
    /\ UNCHANGED retryVars
    /\ UNCHANGED pollerVars
    /\ UNCHANGED otherVars

\* pollErrorCount := m.pollErrorCount
GetMetricsReadErr(t) ==
    /\ mth[t].pc = "rerr"
    /\ mth' = [mth EXCEPT ![t] = [@ EXCEPT !.pc = "runlock",
                                           !.snap.pollErrorCount = m.pollErrorCount]]
    /\ UNCHANGED <<m, mu, clock, doneSucc, doneErr>>
    /\ UNCHANGED retryVars
    /\ UNCHANGED pollerVars
    /\ UNCHANGED otherVars

\* m.mu.RUnlock(); the copied fields are what GetMetrics returns
GetMetricsRUnlock(t) ==
    /\ mth[t].pc = "runlock"
    /\ mu' = [mu EXCEPT !.readers = @ \ {t}]
    /\ mth' = [mth EXCEPT ![t].pc = "returned"]
    /\ UNCHANGED <<m, clock, doneSucc, doneErr>>
    /\ UNCHANGED retryVars
    /\ UNCHANGED pollerVars
    /\ UNCHANGED otherVars

NextMetrics ==
    \/ \E t \in Writers :
          \/ RecordLock(t)
          \/ RecordTime(t)
          \/ RecordDur(t)
          \/ RecordLoad(t)
          \/ RecordStore(t)
          \/ RecordTotal(t)
          \/ RecordUnlock(t)
    \/ \E t \in Readers :
          \/ GetMetricsRLock(t)
          \/ GetMetricsReadTime(t)
          \/ GetMetricsReadDur(t)
          \/ GetMetricsReadSucc(t)
          \/ GetMetricsReadErr(t)
          \/ GetMetricsRUnlock(t)

SpecMetrics == InitMetrics /\ [][NextMetrics]_vars

(***************************************************************************)
(* Spec: callers of Poller.Start and Poller.Stop, the loop of the caller   *)
(* that claimed it, its PollPrices cycles, and the environment (ticker,    *)
(* cancellation, deadlines, collaborators' answers).                       *)
(***************************************************************************)
\* main.go:118-123 and snapshot_service.go:541-556: the client's retry.Config
ClientPolicies ==
    [MaxRetries : {MaxRetriesBound},
     InitialBackoff : {MaxInitialBackoff},
     MaxBackoff : {MaxBackoffBound},
     Multiplier : {MaxMultiplier},
     Jitter : {10}]

ListErr == [tag |-> "list", id |-> 0]

StoreErr == [tag |-> "store", id |-> 0]

Init ==
    /\ cfg \in ClientPolicies
    /\ do = DoIdle
    /\ results = <<>>
    /\ ctxErr = "none"
    /\ MetricsIdle
    /\ PollerIdle
    /\ OthersIdle

\* what a step of the poller leaves alone besides the poller's own state
OtherUnchanged == UNCHANGED <<cfg, do, results, ctxErr, mu, mth, tm, repo, gp>>

\* the metrics after a cycle step that recorded dec.rec at time now
Recorded(t, dec, now) ==
    /\ m' = ApplyRec(m, dec.rec, now - lp[t].cyc.start, now)
    /\ doneSucc' = doneSucc + (IF dec.rec = "success" THEN 1 ELSE 0)
    /\ doneErr' = doneErr + (IF dec.rec = "error" THEN 1 ELSE 0)
    /\ clock' = now

\* AlreadyRunning, were Start not to look at p.running
AlreadyRunningNever(r) == FALSE

\* poller.go:38: if p.running
AlreadyRunning(r) == r

\* poller.go:36-42: Start takes p.mu and looks at p.running
StartCall(t) ==
    /\ ~panicked
    /\ lp[t].pc \in {"idle", "returned"}
    /\ pmu = "free"
    /\ starts < MaxStarts
    /\ starts' = starts + 1
    /\ ctxDone' = [ctxDone EXCEPT ![t] = FALSE]
    /\ IF AlreadyRunning(running)
       THEN /\ lp' = [lp EXCEPT ![t] = [LoopIdle EXCEPT !.pc = "returned", !.noop = TRUE]]
            /\ UNCHANGED <<running, pmu>>
       ELSE /\ running' = TRUE
            /\ pmu' = t
            /\ lp' = [lp EXCEPT ![t] = [LoopIdle EXCEPT !.pc = "mk_stop"]]
    /\ UNCHANGED <<stopCh, doneCh, closed, nextChan, panicked, sp, stops>>
    /\ UNCHANGED <<m, clock, doneSucc, doneErr>>
    /\ OtherUnchanged

\* StartMakeStop, were Start to keep the stop channel of the previous loop
StartKeepsStopCh(t) ==
    /\ ~panicked
    /\ lp[t].pc = "mk_stop"
    /\ lp' = [lp EXCEPT ![t].pc = "mk_done"]
    /\ UNCHANGED <<running, stopCh, doneCh, pmu, closed, nextChan, panicked, sp,
                   ctxDone, starts, stops>>
    /\ UNCHANGED <<m, clock, doneSucc, doneErr>>
    /\ OtherUnchanged

\* poller.go:43
StartMakeStop(t) ==
    /\ ~panicked
    /\ lp[t].pc = "mk_stop"
    /\ stopCh' = nextChan
    /\ nextChan' = nextChan + 1
    /\ lp' = [lp EXCEPT ![t].pc = "mk_done"]
    /\ UNCHANGED <<running, doneCh, pmu, closed, panicked, sp, ctxDone, starts, stops>>
    /\ UNCHANGED <<m, clock, doneSucc, doneErr>>
    /\ OtherUnchanged

\* poller.go:44-45
StartMakeDone(t) ==
    /\ ~panicked
    /\ lp[t].pc = "mk_done"
    /\ doneCh' = nextChan
    /\ nextChan' = nextChan + 1
    /\ pmu' = "free"
    /\ lp' = [lp EXCEPT ![t].pc = "ticker"]
    /\ UNCHANGED <<running, stopCh, closed, panicked, sp, ctxDone, starts, stops>>
    /\ UNCHANGED <<m, clock, doneSucc, doneErr>>
    /\ OtherUnchanged

\* poller.go:49-53: the ticker is created and the initial poll begins
StartInitialPoll(t) ==
    /\ ~panicked
    /\ lp[t].pc = "ticker"
    /\ \E now \in NowValues :
          /\ lp' = [lp EXCEPT ![t] = BeginCycle(lp[t], ctxDone[t], now, m)]
          /\ clock' = now
    /\ UNCHANGED <<running, stopCh, doneCh, pmu, closed, nextChan, panicked, sp,
                   ctxDone, starts, stops>>
    /\ UNCHANGED <<m, doneSucc, doneErr>>
    /\ OtherUnchanged

\* snapshot_service.go:145-155: ListActive answers; a query on a context that
\* is already done fails in the driver
CycleList(t) ==
    /\ ~panicked
    /\ lp[t].pc = "list"
    /\ \E err \in {NoErr, ListErr}, symbols \in ActiveOptions, now \in NowValues :
          /\ err # NoErr => symbols = <<>>
          /\ lp[t].pollErr # "none" => err # NoErr
          /\ LET dec == AfterList(err, symbols)
                 c == [CycAfter(lp[t].cyc, dec) EXCEPT !.symbols = symbols]
             IN  /\ lp' = [lp EXCEPT ![t] =
                        [@ EXCEPT !.pc = dec.next,
                                  !.cyc = c,
                                  !.do = IF dec.next = "fetch" THEN DoEnter ELSE DoIdle]]
                 /\ IF dec.rec = "none"
                    THEN UNCHANGED <<m, clock, doneSucc, doneErr>>
                    ELSE Recorded(t, dec, now)
    /\ UNCHANGED pollerVarsButLp
    /\ OtherUnchanged

\* the retry.Do call inside GetPrices: loop head (backoff.go:59-61, 83)
FetchLoop(t) ==
    /\ ~panicked
    /\ lp[t].pc = "fetch"
    /\ lp[t].do.pc = "loop"
    /\ \E r \in JitterDraws : lp' = [lp EXCEPT ![t].do = DoLoop(cfg, lp[t].do, r)]
    /\ UNCHANGED pollerVarsButLp
    /\ UNCHANGED <<m, clock, doneSucc, doneErr>>
    /\ OtherUnchanged

\* the select of the backoff wait is evaluated (backoff.go:63-67)
FetchSelect(t) ==
    /\ ~panicked
    /\ lp[t].pc = "fetch"
    /\ lp[t].do.pc = "select"
    /\ IF ReadyCases(lp[t].do, lp[t].pollErr) = {}
       THEN lp' = [lp EXCEPT ![t].do.pc = "parked"]
       ELSE \E k \in ReadyCases(lp[t].do, lp[t].pollErr) :
               lp' = [lp EXCEPT ![t].do = DoSelected(lp[t].do, lp[t].pollErr, k)]
    /\ UNCHANGED pollerVarsButLp
    /\ UNCHANGED <<m, clock, doneSucc, doneErr>>
    /\ OtherUnchanged

\* the blocked select resumes with the case that woke it
FetchWake(t) ==
    /\ ~panicked
    /\ lp[t].pc = "fetch"
    /\ lp[t].do.pc = "parked"
    /\ lp[t].do.woken # "none"
    /\ lp' = [lp EXCEPT ![t].do = DoSelected(lp[t].do, lp[t].pollErr, lp[t].do.woken)]
    /\ UNCHANGED pollerVarsButLp
    /\ UNCHANGED <<m, clock, doneSucc, doneErr>>
    /\ OtherUnchanged

\* one request to the exchange (snapshot_service.go:572-632, backoff.go:70-80);
\* a request on a context that is already done fails in the transport
FetchCall(t) ==
    /\ ~panicked
    /\ lp[t].pc = "fetch"
    /\ lp[t].do.pc = "call"
    /\ \E resp \in Responses :
          /\ lp[t].pollErr # "none" => resp.kind = "neterr"
          /\ LET a == FetchAttempt(resp, lp[t].do.attempt + 1, lp[t].cyc.prices)
             IN  lp' = [lp EXCEPT ![t] =
                           [@ EXCEPT !.do = DoCall(lp[t].do, a.err),
                                     !.cyc.prices = a.prices,
                                     !.cyc.exCalls = @ + 1]]
    /\ UNCHANGED pollerVarsButLp
    /\ UNCHANGED <<m, clock, doneSucc, doneErr>>
    /\ OtherUnchanged

\* the backoff elapses: the timer of time.After fires
FetchTimerFire(t) ==
    /\ ~panicked
    /\ lp[t].pc = "fetch"
    /\ lp[t].do.pc \in {"select", "parked"}
    /\ ~lp[t].do.timerReady
    /\ lp' = [lp EXCEPT ![t].do = WakeBy([lp[t].do EXCEPT !.timerReady = TRUE], "timer")]
    /\ UNCHANGED pollerVarsButLp
    /\ UNCHANGED <<m, clock, doneSucc, doneErr>>
    /\ OtherUnchanged

\* snapshot_service.go:168-193: GetPrices returned; the batch is built
FetchReturn(t) ==
    /\ ~panicked
    /\ lp[t].pc = "fetch"
    /\ lp[t].do.pc = "done"
    /\ \E now \in NowValues :
          LET err == lp[t].do.ret
              snapshots == IF err = NoErr
                           THEN BuildSnapshots(lp[t].cyc.symbols, lp[t].cyc.prices, now)
                           ELSE <<>>
              dec == AfterFetch(err, snapshots)
              c == [CycAfter(lp[t].cyc, dec) EXCEPT !.batch = snapshots,
                                                    !.woken =
                        IF err.tag = "ctx" THEN lp[t].do.woken ELSE "none"]
          IN  /\ lp' = [lp EXCEPT ![t] = [@ EXCEPT !.pc = dec.next, !.cyc = c, !.do = DoIdle]]
              /\ IF dec.rec = "none"
                 THEN clock' = now /\ UNCHANGED <<m, doneSucc, doneErr>>
                 ELSE Recorded(t, dec, now)
    /\ UNCHANGED pollerVarsButLp
    /\ OtherUnchanged

\* snapshot_service.go:196-211: CreateBatch stores all of the batch or fails;
\* on a context that is already done it fails
CyclePersist(t) ==
    /\ ~panicked
    /\ lp[t].pc = "persist"
    /\ \E err \in {e \in {NoErr, StoreErr} : lp[t].pollErr # "none" => e # NoErr},
          now \in NowValues :
          LET dec == AfterPersist(err)
              c == [CycAfter(lp[t].cyc, dec) EXCEPT
                       !.stCalls = @ + 1,
                       !.persisted = IF err = NoErr THEN lp[t].cyc.batch ELSE <<>>]
          IN  /\ lp' = [lp EXCEPT ![t] = [@ EXCEPT !.pc = dec.next, !.cyc = c]]
              /\ Recorded(t, dec, now)
    /\ UNCHANGED pollerVarsButLp
    /\ OtherUnchanged

\* poller.go:87-92: PollPrices returned to poll, which returns to the loop
PollReturn(t) ==
    /\ ~panicked
    /\ lp[t].pc = "polled"
    /\ lp' = [lp EXCEPT ![t] = AfterPoll(lp[t])]
    /\ UNCHANGED pollerVarsButLp
    /\ UNCHANGED <<m, clock, doneSucc, doneErr>>
    /\ OtherUnchanged

\* poller.go:56-75: the loop's select takes one of its ready cases
LoopSelect(t) ==
    /\ ~panicked
    /\ lp[t].pc = "select"
    /\ \E k \in LoopReady(lp[t], ctxDone[t], stopCh \in closed) :
          \/ /\ k = "ctx"
             /\ lp' = [lp EXCEPT ![t] = LoopLeft(lp[t], CtxError("Canceled"))]
             /\ UNCHANGED clock
          \/ /\ k = "stop"
             /\ lp' = [lp EXCEPT ![t] = LoopLeft(lp[t], NoErr)]
             /\ UNCHANGED clock
          \/ /\ k = "tick"
             /\ \E now \in NowValues :
                   /\ lp' = [lp EXCEPT ![t] =
                                BeginCycle([lp[t] EXCEPT !.tick = FALSE], ctxDone[t], now, m)]
                   /\ clock' = now
    /\ UNCHANGED pollerVarsButLp
    /\ UNCHANGED <<m, doneSucc, doneErr>>
    /\ OtherUnchanged

\* poller.go:59 / 67: close(p.doneCh)
LoopCloseDone(t) ==
    /\ ~panicked
    /\ lp[t].pc = "close_done"
    /\ IF doneCh \in closed
       THEN panicked' = TRUE /\ UNCHANGED <<closed, lp>>
       ELSE /\ closed' = closed \cup {doneCh}
            /\ lp' = [lp EXCEPT ![t].pc = "exit_lock"]
            /\ UNCHANGED panicked
    /\ UNCHANGED <<running, stopCh, doneCh, pmu, nextChan, sp, ctxDone, starts, stops>>
    /\ UNCHANGED <<m, clock, doneSucc, doneErr>>
    /\ OtherUnchanged

\* poller.go:60-63 / 68-71: running is cleared under p.mu and Start returns;
\* of its locals only the value returned remains
LoopExit(t) ==
    /\ ~panicked
    /\ lp[t].pc = "exit_lock"
    /\ pmu = "free"
    /\ running' = FALSE
    /\ lp' = [lp EXCEPT ![t] = [LoopIdle EXCEPT !.pc = "returned", !.ret = lp[t].ret]]
    /\ UNCHANGED <<stopCh, doneCh, pmu, closed, nextChan, panicked, sp, ctxDone,
                   starts, stops>>
    /\ UNCHANGED <<m, clock, doneSucc, doneErr>>
    /\ OtherUnchanged

\* the context passed to Start is cancelled
Cancel(t) ==
    /\ ~panicked
    /\ ~ctxDone[t]
    /\ lp[t].pc \notin {"idle", "returned"}
    /\ ctxDone' = [ctxDone EXCEPT ![t] = TRUE]
    /\ lp' = [lp EXCEPT ![t] =
                 IF InCycle(lp[t]) /\ lp[t].pollErr = "none"
                 THEN [@ EXCEPT !.pollErr = "Canceled", !.do = WakeBy(lp[t].do, "ctx")]
                 ELSE @]
    /\ UNCHANGED <<running, stopCh, doneCh, pmu, closed, nextChan, panicked, sp,
                   starts, stops>>
    /\ UNCHANGED <<m, clock, doneSucc, doneErr>>
    /\ OtherUnchanged

\* the deadline of pollCtx passes while the cycle is in progress
PollTimeout(t) ==
    /\ ~panicked
    /\ InCycle(lp[t])
    /\ lp[t].pollErr = "none"
    /\ lp' = [lp EXCEPT ![t] = [@ EXCEPT !.pollErr = "DeadlineExceeded",
                                         !.do = WakeBy(lp[t].do, "ctx")]]
    /\ UNCHANGED pollerVarsButLp
    /\ UNCHANGED <<m, clock, doneSucc, doneErr>>
    /\ OtherUnchanged

\* the interval ticker delivers a tick into its one-slot channel
Tick(t) ==
    /\ ~panicked
    /\ InLoop(lp[t])
    /\ ~lp[t].tick
    /\ lp[t].ncyc < MaxCycles
    /\ lp' = [lp EXCEPT ![t].tick = TRUE]
    /\ UNCHANGED pollerVarsButLp
    /\ UNCHANGED <<m, clock, doneSucc, doneErr>>
    /\ OtherUnchanged

\* poller.go:95-101: Stop takes p.mu and looks at p.running
StopCall(q) ==
    /\ ~panicked
    /\ sp[q].pc \in {"idle", "returned"}
    /\ pmu = "free"
    /\ stops < MaxStops
    /\ stops' = stops + 1
    /\ sp' = [sp EXCEPT ![q] =
                 IF ~running
                 THEN [StopIdle EXCEPT !.pc = "returned", !.noop = TRUE]
                 ELSE [StopIdle EXCEPT !.pc = "close_stop"]]
    /\ UNCHANGED <<running, stopCh, doneCh, pmu, closed, nextChan, panicked, lp,
                   ctxDone, starts>>
    /\ UNCHANGED <<m, clock, doneSucc, doneErr>>
    /\ OtherUnchanged

\* poller.go:104: close(p.stopCh), on whatever channel the field names now
StopClose(q) ==
    /\ ~panicked
    /\ sp[q].pc = "close_stop"
    /\ IF stopCh \in closed
       THEN panicked' = TRUE /\ UNCHANGED <<closed, sp>>
       ELSE /\ closed' = closed \cup {stopCh}
            /\ sp' = [sp EXCEPT ![q] = [@ EXCEPT !.pc = "stop_select", !.sig = stopCh]]
            /\ UNCHANGED panicked
    /\ UNCHANGED <<running, stopCh, doneCh, pmu, nextChan, lp, ctxDone, starts, stops>>
    /\ UNCHANGED <<m, clock, doneSucc, doneErr>>
    /\ OtherUnchanged

\* poller.go:107-110: the select reads p.doneCh and arms the 10 s timer
StopSelect(q) ==
    /\ ~panicked
    /\ sp[q].pc = "stop_select"
    /\ sp' = [sp EXCEPT ![q] = [@ EXCEPT !.pc = "stop_wait", !.ch = doneCh,
                                         !.timerFired = FALSE]]
    /\ UNCHANGED <<running, stopCh, doneCh, pmu, closed, nextChan, panicked, lp,
                   ctxDone, starts, stops>>
    /\ UNCHANGED <<m, clock, doneSucc, doneErr>>
    /\ OtherUnchanged

\* poller.go:108-111: what Stop returns for the case taken
StopResult(k) == IF k = "done" THEN NoErr ELSE CtxError("DeadlineExceeded")

\* poller.go:108-109: the channel Stop waits on is closed and Stop returns nil
StopWake(q) ==
    /\ ~panicked
    /\ sp[q].pc = "stop_wait"
    /\ sp[q].ch \in closed
    /\ sp' = [sp EXCEPT ![q] = [StopIdle EXCEPT !.pc = "returned",
                                                !.ret = StopResult("done")]]
    /\ UNCHANGED <<running, stopCh, doneCh, pmu, closed, nextChan, panicked, lp,
                   ctxDone, starts, stops>>
    /\ UNCHANGED <<m, clock, doneSucc, doneErr>>
    /\ OtherUnchanged

\* poller.go:110-111: the 10 s timer fires while Stop is still blocked, and
\* Stop returns the timeout error
StopTimerFire(q) ==
    /\ ~panicked
    /\ sp[q].pc = "stop_wait"
    /\ sp[q].ch \notin closed
    /\ sp' = [sp EXCEPT ![q] = [StopIdle EXCEPT !.pc = "returned", !.timerFired = TRUE,
                                                !.ret = StopResult("timer")]]
    /\ UNCHANGED <<running, stopCh, doneCh, pmu, closed, nextChan, panicked, lp,
                   ctxDone, starts, stops>>
    /\ UNCHANGED <<m, clock, doneSucc, doneErr>>
    /\ OtherUnchanged

\* main.go:184-188: the application calls Start once
AppStart(t) == starts = 0 /\ StartCall(t)

\* main.go:211-214, 231-238: the application calls Stop once, at shutdown,
\* which it begins only once the context is cancelled
AppStop(q) == stops = 0 /\ (\E t \in DOMAIN ctxDone : ctxDone[t]) /\ StopCall(q)

\* Spec: the poller as the application runs it
Next ==
    \/ \E t \in {"s1"} :
          \/ AppStart(t)
          \/ StartMakeStop(t)
          \/ StartMakeDone(t)
          \/ StartInitialPoll(t)
          \/ CycleList(t)
          \/ FetchLoop(t)
          \/ FetchSelect(t)
          \/ FetchWake(t)
          \/ FetchCall(t)
          \/ FetchTimerFire(t)
          \/ FetchReturn(t)
          \/ CyclePersist(t)
          \/ PollReturn(t)
          \/ LoopSelect(t)
          \/ LoopCloseDone(t)
          \/ LoopExit(t)
          \/ Cancel(t)
          \/ PollTimeout(t)
          \/ Tick(t)
    \/ \E q \in {"p1"} :
          \/ AppStop(q)
          \/ StopClose(q)
          \/ StopSelect(q)
          \/ StopWake(q)
          \/ StopTimerFire(q)

Spec == Init /\ [][Next]_vars

(***************************************************************************)
(* SpecPoller: worker.Poller under arbitrary callers. Any of Starters may  *)
(* call Start, and a caller of Stop may call Stop, at any time and again   *)
(* after returning. The symbol universe is empty, so every cycle ends     *)
(* right after ListActive (which fails only on a cancelled context), well  *)
(* within its deadline, and the clock stands still.                        *)
(***************************************************************************)
InitPoller ==
    /\ cfg \in ClientPolicies
    /\ do = DoIdle
    /\ results = <<>>
    /\ ctxErr = "none"
    /\ m = MetricsZero
    /\ mu = [writer |-> "none", readers |-> {}]
    /\ mth = [t \in Writers \cup Readers |-> ThreadIdle]
    /\ clock = MaxClock
    /\ doneSucc = 0
    /\ doneErr = 0
    /\ PollerIdle
    /\ OthersIdle

\* snapshot_service.go:145-155: ListActive returns no symbol, or fails on a
\* context that is done
CycleShort(t) ==
    /\ CycleList(t)
    /\ lp'[t].pc = "polled"
    /\ lp[t].pollErr = "none" => lp'[t].cyc.path = "empty"

NextPoller ==
    \/ \E t \in Starters :
          \/ StartCall(t)
          \/ StartMakeStop(t)
          \/ StartMakeDone(t)
          \/ StartInitialPoll(t)
          \/ CycleShort(t)
          \/ PollReturn(t)
          \/ LoopSelect(t)
          \/ LoopCloseDone(t)
          \/ LoopExit(t)
          \/ Cancel(t)
          \/ Tick(t)
    \/ \E q \in {"p1"} :
          \/ StopCall(q)
          \/ StopClose(q)
          \/ StopSelect(q)
          \/ StopWake(q)
          \/ StopTimerFire(q)

SpecPoller == InitPoller /\ [][NextPoller]_vars

\* The goroutine running Start is scheduled again and again, so each of its
\* steps is taken once it stays possible (a cycle returns by its deadline),
\* and a select that is evaluated again and again with the stop or the ctx
\* case ready takes one of them in the end: Go picks among the ready cases
\* at random.
LoopFairness ==
    \A t \in {"s1"} :
        /\ WF_vars(StartMakeStop(t))
        /\ WF_vars(StartMakeDone(t))
        /\ WF_vars(StartInitialPoll(t))
        /\ WF_vars(CycleShort(t))
        /\ WF_vars(PollReturn(t))
        /\ WF_vars(LoopSelect(t))
        /\ SF_vars(LoopSelect(t) /\ lp'[t].pc = "close_done")
        /\ WF_vars(LoopCloseDone(t))
        /\ WF_vars(LoopExit(t))

\* one goroutine calls Start, again after it returned, and one calls Stop
NextPollerOne ==
    \/ \E t \in {"s1"} :
          \/ StartCall(t)
          \/ StartMakeStop(t)
          \/ StartMakeDone(t)
          \/ StartInitialPoll(t)
          \/ CycleShort(t)
          \/ PollReturn(t)
          \/ LoopSelect(t)
          \/ LoopCloseDone(t)
          \/ LoopExit(t)
          \/ Cancel(t)
          \/ Tick(t)
    \/ \E q \in {"p1"} :
          \/ StopCall(q)
          \/ StopClose(q)
          \/ StopSelect(q)
          \/ StopWake(q)
          \/ StopTimerFire(q)

SpecPollerFair == InitPoller /\ [][NextPollerOne]_vars /\ LoopFairness

(***************************************************************************)
(* SpecStopCycle: one Start call whose cycles poll one symbol, and Stop    *)
(* called at any time, with or without cancellation of the Start context.  *)
(***************************************************************************)
\* ListActive fails or returns the one active symbol
CycleListOne(t) ==
    /\ CycleList(t)
    /\ \/ lp'[t].pc = "fetch" /\ lp'[t].cyc.symbols = <<SymBTC>>
       \/ lp'[t].cyc.path = "listfail"

\* the exchange answers with a failure or with the quote of that symbol
FetchCallOne(t) ==
    /\ FetchCall(t)
    /\ lp'[t].cyc.prices \in {<<>>, <<[Symbol |-> "BTCUSDT", Price |-> 15]>>}
    /\ lp'[t].do.pc = "done" => lp'[t].do.ret = NoErr

NextStopCycle ==
    \/ \E t \in {"s1"} :
          \/ AppStart(t)
          \/ StartMakeStop(t)
          \/ StartMakeDone(t)
          \/ StartInitialPoll(t)
          \/ CycleListOne(t)
          \/ FetchLoop(t)
          \/ FetchSelect(t)
          \/ FetchWake(t)
          \/ FetchCallOne(t)
          \/ FetchTimerFire(t)
          \/ FetchReturn(t)
          \/ CyclePersist(t)
          \/ PollReturn(t)
          \/ LoopSelect(t)
          \/ LoopCloseDone(t)
          \/ LoopExit(t)
          \/ Cancel(t)
          \/ Tick(t)
    \/ \E q \in {"p1"} :
          \/ StopCall(q)
          \/ StopClose(q)
          \/ StopSelect(q)
          \/ StopWake(q)
          \/ StopTimerFire(q)

SpecStopCycle == Init /\ [][NextStopCycle]_vars

(***************************************************************************)
(* SpecDeadline: the timing of Poller.poll. A poller built with any        *)
(* interval is started; each poll derives pollCtx from the Start context   *)
(* (main.go:40: cancellable, without a deadline of its own) and time       *)
(* passes in ticks of 1/Second seconds.                                    *)
(***************************************************************************)
MaxInterval == 2 * 5 * Second + 2 * Second

Intervals == (0 - 2)..MaxInterval

InitDeadline ==
    /\ RetryIdle
    /\ MetricsIdle
    /\ PollerIdle
    /\ repo = RepoIdle
    /\ gp = ClientIdle
    /\ \E i \in Intervals : tm = [TimingIdle EXCEPT !.interval = i]

DeadlineFrame ==
    /\ UNCHANGED <<repo, gp>>
    /\ UNCHANGED retryVars
    /\ UNCHANGED metricsVars
    /\ UNCHANGED pollerVars

\* poller.go:49: time.NewTicker panics unless the interval is positive; the
\* first tick is due one interval later
TimingStart ==
    /\ tm.pc = "idle"
    /\ tm' = [tm EXCEPT !.pc = IF tm.interval <= 0 THEN "panicked" ELSE "loop",
                        !.due = tm.now + tm.interval]
    /\ DeadlineFrame

\* poller.go:49, 73: the ticker fires at the instant due; ticker.C holds one
\* tick, and a tick that finds it full is dropped
TimingTick ==
    /\ tm.pc \in {"loop", "polling"}
    /\ tm.now >= tm.due
    /\ tm' = [tm EXCEPT !.tick = IF tm.tick = NoTime THEN tm.due ELSE tm.tick,
                        !.due = tm.due + tm.interval]
    /\ DeadlineFrame

\* poller.go:56-75: the loop sleeps in its select until the next tick is due
TimingWait ==
    /\ tm.pc = "loop"
    /\ tm.npoll > 0
    /\ tm.npoll < MaxPolls
    /\ tm.tick = NoTime
    /\ tm.now < tm.due
    /\ tm' = [tm EXCEPT !.now = tm.due]
    /\ DeadlineFrame

\* poller.go:53, 73-74, 79-87: the initial poll, or the poll on a tick taken
\* from ticker.C; poll computes pollTimeout and derives pollCtx with the
\* deadline time.Now() + pollTimeout
TimingPoll ==
    /\ tm.pc = "loop"
    /\ tm.npoll < MaxPolls
    /\ tm.npoll > 0 => tm.tick # NoTime
    /\ tm.now < tm.due
    /\ \E now \in {tm.now, tm.now + 1} :
          tm' = [tm EXCEPT !.pc = "polling",
                           !.now = now,
                           !.start = now,
                           !.deadline = now + pollTimeout(tm.interval),
                           !.pollCtx = "live",
                           !.used = @ \cup {pollTimeout(tm.interval)},
                           !.onTick = IF tm.npoll > 0 THEN tm.tick ELSE NoTime,
                           !.tick = IF tm.npoll > 0 THEN NoTime ELSE tm.tick]
    /\ DeadlineFrame

\* time passes during the cycle
TimingAdvance ==
    /\ tm.pc = "polling"
    /\ tm.now <= tm.deadline
    /\ tm.now < tm.due
    /\ tm' = [tm EXCEPT !.now = @ + 1]
    /\ DeadlineFrame

\* the timer of context.WithTimeout fires, at the deadline or later
TimingExpire ==
    /\ tm.pc = "polling"
    /\ tm.pollCtx = "live"
    /\ tm.now >= tm.deadline
    /\ tm' = [tm EXCEPT !.pollCtx = "DeadlineExceeded"]
    /\ DeadlineFrame

\* the Start context is cancelled during the cycle
TimingCancel ==
    /\ tm.pc = "polling"
    /\ tm.pollCtx = "live"
    /\ tm' = [tm EXCEPT !.pollCtx = "Canceled"]
    /\ DeadlineFrame

\* poller.go:86-92: PollPrices returns, cancel() runs, poll returns
TimingReturn ==
    /\ tm.pc = "polling"
    /\ tm' = [tm EXCEPT !.pc = IF tm.pollCtx = "Canceled" THEN "returned" ELSE "loop",
                        !.npoll = @ + 1,
                        !.pollCtx = "none"]
    /\ DeadlineFrame

NextDeadline ==
    \/ TimingStart
    \/ TimingTick
    \/ TimingWait
    \/ TimingPoll
    \/ TimingAdvance
    \/ TimingExpire
    \/ TimingCancel
    \/ TimingReturn

SpecDeadline == InitDeadline /\ [][NextDeadline]_vars

(***************************************************************************)
(* SpecRepo: postgres.SnapshotRepository.CreateBatch on the snapshots      *)
(* table, with another session querying the table at any time. The i-th   *)
(* point of the batch of call c, a batch of n points, is the row           *)
(* [call |-> c, idx |-> i, n |-> n].                                       *)
(***************************************************************************)
InitRepo ==
    /\ RetryIdle
    /\ MetricsIdle
    /\ PollerIdle
    /\ tm = TimingIdle
    /\ gp = ClientIdle
    /\ repo = RepoIdle

RepoFrame ==
    /\ UNCHANGED <<tm, gp>>
    /\ UNCHANGED retryVars
    /\ UNCHANGED metricsVars
    /\ UNCHANGED pollerVars

\* CreateBatch, were it to insert through the pool as Create does
\* (snapshot_repo.go:34) instead of through the transaction
InsertedThroughPool(r, row) == [r EXCEPT !.rows = @ \cup {row}]

\* snapshot_repo.go:66-71: tx.QueryRow inserts the row in the transaction
Inserted(r, row) == [r EXCEPT !.pending = @ \cup {row}]

\* snapshot_repo.go:49-52: CreateBatch is called; an empty batch returns nil
CreateBatchCall ==
    /\ repo.pc \in {"idle", "returned"}
    /\ repo.calls < MaxBatchCalls
    /\ \E n \in 0..MaxBatchLen :
          repo' = [repo EXCEPT !.pc = IF n = 0 THEN "returned" ELSE "begin",
                               !.n = n,
                               !.i = 1,
                               !.ret = NoErr,
                               !.calls = @ + 1]
    /\ RepoFrame

\* snapshot_repo.go:54-58: Pool.Begin; on failure CreateBatch returns
CreateBatchBegin ==
    /\ repo.pc = "begin"
    /\ \E err \in {NoErr, StoreErr} :
          repo' = IF err = NoErr
                  THEN [repo EXCEPT !.pc = "insert"]
                  ELSE [repo EXCEPT !.pc = "returned", !.ret = err]
    /\ RepoFrame

\* snapshot_repo.go:66-77: the insert of the next point succeeds or fails
CreateBatchInsert ==
    /\ repo.pc = "insert"
    /\ \E err \in {NoErr, StoreErr} :
          repo' = IF err = NoErr
                  THEN [Inserted(repo, [call |-> repo.calls, idx |-> repo.i, n |-> repo.n])
                           EXCEPT !.i = @ + 1,
                                  !.pc = IF repo.i = repo.n THEN "commit" ELSE "insert"]
                  ELSE [repo EXCEPT !.pc = "rollback", !.ret = err]
    /\ RepoFrame

\* snapshot_repo.go:79-81: tx.Commit makes every row of the transaction
\* visible at once, or fails
CreateBatchCommit ==
    /\ repo.pc = "commit"
    /\ \E err \in {NoErr, StoreErr} :
          repo' = IF err = NoErr
                  THEN [repo EXCEPT !.pc = "rollback",
                                    !.rows = @ \cup repo.pending,
                                    !.pending = {}]
                  ELSE [repo EXCEPT !.pc = "rollback", !.ret = err]
    /\ RepoFrame

\* snapshot_repo.go:58: the deferred tx.Rollback discards what was not
\* committed (and does nothing after a commit); CreateBatch returns
CreateBatchRollback ==
    /\ repo.pc = "rollback"
    /\ repo' = [repo EXCEPT !.pc = "returned", !.pending = {}]
    /\ RepoFrame

\* another session queries the table: it sees the committed rows
RepoQuery ==
    /\ repo.seen # repo.rows
    /\ repo' = [repo EXCEPT !.seen = repo.rows]
    /\ RepoFrame

NextRepo ==
    \/ CreateBatchCall
    \/ CreateBatchBegin
    \/ CreateBatchInsert
    \/ CreateBatchCommit
    \/ CreateBatchRollback
    \/ RepoQuery

SpecRepo == InitRepo /\ [][NextRepo]_vars

(***************************************************************************)
(* SpecClient: one call of binance.Client.GetPrices, with the retry.Do     *)
(* call inside it (the steps of SpecRetry on do), the answers of the       *)
(* exchange and the cancellation of the caller's context.                  *)
(***************************************************************************)
\* the retry.Config a client may be built with (snapshot_service.go:525-556)
ClientConfigs ==
    [MaxRetries : 0..MaxRetriesBound,
     InitialBackoff : {MaxInitialBackoff},
     MaxBackoff : {MaxBackoffBound},
     Multiplier : {MaxMultiplier},
     Jitter : {10}]

SymbolLists == {<<>>, <<"BTCUSDT">>, <<"BTCUSDT", "ETHUSDT">>}

InitClient ==
    /\ cfg \in ClientConfigs
    /\ do = DoIdle
    /\ results = <<>>
    /\ ctxErr = "none"
    /\ MetricsIdle
    /\ PollerIdle
    /\ tm = TimingIdle
    /\ repo = RepoIdle
    /\ \E symbols \in SymbolLists : gp = [ClientIdle EXCEPT !.symbols = symbols]

\* GetPrices, were it to send a request for no symbols
EmptyRequestNever(symbols) == FALSE

\* snapshot_service.go:566: len(symbols) == 0
EmptyRequest(symbols) == Len(symbols) = 0

\* snapshot_service.go:565-572: GetPrices returns at once for no symbols,
\* and calls retry.Do otherwise
GetPricesCall ==
    /\ gp.pc = "idle"
    /\ IF EmptyRequest(gp.symbols)
       THEN /\ gp' = [gp EXCEPT !.pc = "returned", !.result = <<>>, !.ret = NoErr]
            /\ UNCHANGED do
       ELSE /\ gp' = [gp EXCEPT !.pc = "do", !.entered = TRUE]
            /\ do' = DoEnter
    /\ UNCHANGED <<cfg, results, ctxErr, tm, repo>>
    /\ UNCHANGED metricsVars
    /\ UNCHANGED pollerVars

\* snapshot_service.go:572-632, backoff.go:70-80: one request; on a context
\* that is already done the transport fails
ClientRequest ==
    /\ gp.pc = "do"
    /\ do.pc = "call"
    /\ \E resp \in Responses :
          /\ ctxErr # "none" => resp.kind = "neterr"
          /\ LET a == FetchAttempt(resp, do.attempt + 1, gp.result)
             IN  /\ do' = DoCall(do, a.err)
                 /\ gp' = [gp EXCEPT !.reqs = Append(@, [kind |-> resp.kind,
                                                          status |-> resp.status,
                                                          decodes |-> resp.decodes]),
                                      !.result = a.prices]
    /\ UNCHANGED <<cfg, results, ctxErr, tm, repo>>
    /\ UNCHANGED metricsVars
    /\ UNCHANGED pollerVars

\* snapshot_service.go:634: return result, err
GetPricesReturn ==
    /\ gp.pc = "do"
    /\ do.pc = "done"
    /\ gp' = [gp EXCEPT !.pc = "returned", !.ret = do.ret]
    /\ UNCHANGED <<cfg, do, results, ctxErr, tm, repo>>
    /\ UNCHANGED metricsVars
    /\ UNCHANGED pollerVars

\* the caller's context is cancelled while GetPrices runs
ClientCancel == gp.pc = "do" /\ RetryCancel

NextClient ==
    \/ GetPricesCall
    \/ ClientRequest
    \/ GetPricesReturn
    \/ ClientCancel
    \/ RetryLoop
    \/ RetrySelect
    \/ RetryWake
    \/ RetryTimerFire

SpecClient == InitClient /\ [][NextClient]_vars

(***************************************************************************)
(* Claims about retry.Do (checked under SpecRetry)                         *)
(***************************************************************************)
AllRetryable == \A i \in 1..Len(results) : results[i].tag \in {"retryable", "wrapped"}

\* C1: with MaxRetries = N >= 0, a work function that fails with a retryable
\* error on every call and a context that is never cancelled, Do invokes the
\* work function at most N + 1 times, and when it returns it has invoked it
\* exactly N + 1 times and returns a non-nil error.
C1_ExhaustInvokesNPlusOne ==
    (cfg.MaxRetries >= 0 /\ ctxErr = "none" /\ AllRetryable)
        => /\ Len(results) <= cfg.MaxRetries + 1
           /\ do.pc = "done" => (Len(results) = cfg.MaxRetries + 1 /\ do.ret # NoErr)

C1_Witness ==
    /\ do.pc = "done"
    /\ cfg.MaxRetries = MaxRetriesBound
    /\ ctxErr = "none"
    /\ AllRetryable
    /\ Len(results) = MaxRetriesBound + 1

\* C2: an error that is not retryable, on whichever attempt it is returned, is
\* the last invocation of the work function, and Do has returned exactly it.
C2_TerminalStopsAndIsReturned ==
    \A i \in 1..Len(results) :
        results[i].tag = "plain"
            => (i = Len(results) /\ do.pc = "done" /\ do.ret = results[i])

C2_Witness ==
    /\ cfg.MaxRetries = MaxRetriesBound
    /\ Len(results) = 2
    /\ results[1].tag = "retryable"
    /\ results[2].tag = "plain"
    /\ do.pc = "done"

\* C3: a success of the work function (after any number k of retryable
\* failures) is its last invocation, after k + 1 calls, and Do returns nil.
C3_SuccessReturnsNil ==
    \A i \in 1..Len(results) :
        results[i] = NoErr
            => (i = Len(results) /\ do.pc = "done" /\ do.ret = NoErr)

C3_Witness ==
    /\ Len(results) = MaxRetriesBound + 1
    /\ results[MaxRetriesBound + 1] = NoErr
    /\ \A i \in 1..MaxRetriesBound : results[i].tag = "retryable"
    /\ do.pc = "done"

\* C4: when all N + 1 invocations failed with retryable errors, the error Do
\* returns is the one the last invocation returned.
C4_ExhaustReturnsLastErr ==
    (/\ do.pc = "done"
     /\ cfg.MaxRetries >= 0
     /\ Len(results) = cfg.MaxRetries + 1
     /\ AllRetryable)
        => do.ret = results[Len(results)]

C4_Witness ==
    /\ do.pc = "done"
    /\ cfg.MaxRetries = MaxRetriesBound
    /\ Len(results) = MaxRetriesBound + 1
    /\ AllRetryable
    /\ do.ret = results[MaxRetriesBound + 1]
    /\ do.ret # results[1]

\* C5: when the context is cancelled while Do is blocked in the backoff select
\* and the timer has not fired (the goroutine is woken by the ctx case), Do
\* never reaches another invocation of the work function and returns the
\* context's error.
C5_CancelDuringBackoff ==
    do.woken = "ctx"
        => /\ do.pc \in {"parked", "done"}
           /\ do.pc = "done" => do.ret = CtxError(ctxErr)

C5_Witness ==
    /\ do.woken = "ctx"
    /\ do.pc = "done"
    /\ do.backoff > 0
    /\ ~do.timerReady
    /\ Len(results) = 1
    /\ cfg.MaxRetries = MaxRetriesBound

(***************************************************************************)
(* Claims about MetricsService (checked under SpecMetrics)                 *)
(***************************************************************************)
NoRecordInProgress == \A w \in Writers : mth[w].pc = "idle"

\* C6: under every interleaving of concurrent RecordPollSuccess and
\* RecordPollError calls, no step lowers pollSuccessCount or pollErrorCount,
\* and whenever no record call is in progress pollSuccessCount is the number
\* of RecordPollSuccess calls that returned and pollErrorCount the number of
\* RecordPollError calls that returned (so their sum is the number of calls).
C6_CountersMatchCalls ==
    [][/\ m'.pollSuccessCount >= m.pollSuccessCount
       /\ m'.pollErrorCount >= m.pollErrorCount
       /\ NoRecordInProgress' =>
             /\ m'.pollSuccessCount = doneSucc'
             /\ m'.pollErrorCount = doneErr'
             /\ m'.pollSuccessCount + m'.pollErrorCount = doneSucc' + doneErr']_vars

C6_Witness ==
    /\ NoRecordInProgress
    /\ doneSucc >= 1
    /\ doneErr >= 1
    /\ doneSucc + doneErr = MaxRecordCalls
    /\ m.pollSuccessCount + m.pollErrorCount = MaxRecordCalls

\* C7: the four values a GetMetrics call has copied when it releases the read
\* lock are the values the fields hold together at that moment, and no record
\* call is part-way through its update then: the copy is the state between
\* two record calls, never a mix of two updates.
C7_NoTornRead ==
    \A r \in Readers :
        mth[r].pc = "runlock"
            => (mth[r].snap = View(m) /\ NoRecordInProgress)

C7_Witness ==
    \E r \in Readers :
        /\ mth[r].pc = "runlock"
        /\ mth[r].snap.pollSuccessCount >= 1
        /\ mth[r].snap.pollErrorCount >= 1
        /\ mth[r].snap.lastPollDuration = MaxDuration
        /\ mth[r].snap.lastPollTime # NoTime

\* the counter a record call of this kind leaves alone
OtherCounter(mm, kind) ==
    IF kind = "success" THEN mm.pollErrorCount ELSE mm.pollSuccessCount

\* C28: no step of a record call changes the counter of the other kind; the
\* step that stores the counter raises the matching counter by exactly 1;
\* and as the call returns, last-poll time is the time.Now() of that call,
\* last-poll duration is its argument d, and the matching counter is one
\* more than the call found, whatever the fields held before.
C28_RecordCallEffect ==
    [][\A t \in Writers :
          /\ mu.writer = t
                => OtherCounter(m', mth[t].kind) = OtherCounter(m, mth[t].kind)
          /\ (mth[t].pc = "time" /\ mth'[t].pc = "dur")
                => (m'.lastPollTime = clock' /\ clock' >= clock)
          /\ (mth[t].pc = "store" /\ mth'[t].pc = "total")
                => Counter(m', mth[t].kind) = Counter(m, mth[t].kind) + 1
          /\ (mth[t].pc = "unlock" /\ mth'[t].pc = "idle")
                => /\ m'.lastPollTime = clock
                   /\ m'.lastPollDuration = mth[t].d
                   /\ Counter(m', mth[t].kind) = mth[t].tmp + 1
                   /\ m' = m]_vars

\* a RecordPollError call is about to return, with one success and one error
\* recorded before it
C28_Witness ==
    \E t \in Writers :
        /\ mth[t].pc = "unlock"
        /\ mth[t].kind = "error"
        /\ mth[t].d = MaxDuration
        /\ m.pollSuccessCount = 1
        /\ m.pollErrorCount = 2
        /\ m.lastPollDuration = MaxDuration
        /\ m.lastPollTime = clock

(***************************************************************************)
(* Claims about PollPrices cycles in the poller loop (checked under Spec)  *)
(***************************************************************************)
\* the PollPrices call of t has returned and poll has not yet returned
Polled(t, path) == lp[t].pc = "polled" /\ lp[t].cyc.path = path

\* C8: a PollPrices cycle in which ListActive succeeded with zero active
\* symbols has, when it returns, called neither RecordPollSuccess nor
\* RecordPollError, left the counters, the last-poll time, the last-poll
\* duration (and the total) as they were when the cycle began, made no
\* exchange call and no store call, and returns nil.
C8_EmptyUniverseRecordsNothing ==
    \A t \in Starters :
        Polled(t, "empty")
            => /\ lp[t].cyc.recS = 0
               /\ lp[t].cyc.recE = 0
               /\ m = lp[t].cyc.m0
               /\ lp[t].cyc.exCalls = 0
               /\ lp[t].cyc.stCalls = 0
               /\ lp[t].cyc.persisted = <<>>
               /\ lp[t].cyc.ret = NoErr

C8_Witness ==
    \E t \in Starters :
        /\ Polled(t, "empty")
        /\ lp[t].ncyc = 2
        /\ m.pollSuccessCount = 1
        /\ m.lastPollTime # NoTime
        /\ clock > m.lastPollTime

RecCalls(t) == lp[t].cyc.recS + lp[t].cyc.recE

\* C9: a PollPrices cycle that returns on any path other than the empty
\* universe (list failure, fetch failure, empty batch, persist failure,
\* persist success) has made exactly one call to RecordPollSuccess or
\* RecordPollError: the two counters together are one higher than when the
\* cycle began, and while the cycle is still in progress no call was made.
C9_ExactlyOneOutcome ==
    \A t \in Starters :
        /\ InCycle(lp[t]) => (RecCalls(t) = 0 /\ m = lp[t].cyc.m0)
        /\ (lp[t].pc = "polled" /\ lp[t].cyc.path # "empty")
              => /\ lp[t].cyc.path \in
                       {"listfail", "fetchfail", "nobatch", "persistfail", "ok"}
                 /\ RecCalls(t) = 1
                 /\ m.pollSuccessCount + m.pollErrorCount
                       = lp[t].cyc.m0.pollSuccessCount + lp[t].cyc.m0.pollErrorCount + 1
                 /\ m.pollSuccessCount = lp[t].cyc.m0.pollSuccessCount + lp[t].cyc.recS
                 /\ m.pollErrorCount = lp[t].cyc.m0.pollErrorCount + lp[t].cyc.recE

C9_Witness ==
    \E t \in Starters :
        /\ Polled(t, "nobatch")
        /\ lp[t].cyc.recS = 1
        /\ lp[t].cyc.exCalls >= 1
        /\ lp[t].cyc.symbols # <<>>

\* C10: a cycle in which ListActive failed records one failed outcome and
\* makes no exchange call and no store write; the loop is still running when
\* the cycle returns, its next step is back to the select of Start with
\* running still set, and from that select, unless the context is cancelled
\* or Stop has closed stopCh, the only way on is the next cycle on a tick.
C10_ListFailureKeepsLoopRunning ==
    /\ [](\A t \in Starters :
            Polled(t, "listfail")
                => /\ lp[t].cyc.recE = 1
                   /\ lp[t].cyc.recS = 0
                   /\ m.pollErrorCount = lp[t].cyc.m0.pollErrorCount + 1
                   /\ lp[t].cyc.exCalls = 0
                   /\ lp[t].cyc.stCalls = 0
                   /\ lp[t].cyc.persisted = <<>>
                   /\ running)
    /\ [][\A t \in Starters :
            /\ (Polled(t, "listfail") /\ lp'[t].pc # lp[t].pc)
                  => (lp'[t].pc = "select" /\ lp'[t].prevListFailed /\ running')
            /\ (/\ lp[t].pc = "select"
                /\ lp[t].prevListFailed
                /\ ~ctxDone[t]
                /\ stopCh \notin closed
                /\ lp'[t].pc # lp[t].pc)
                  => /\ lp[t].tick
                     /\ lp'[t].pc = "list"
                     /\ lp'[t].ncyc = lp[t].ncyc + 1
                     /\ running']_vars

C10_Witness ==
    \E t \in Starters :
        /\ lp[t].prevListFailed
        /\ InCycle(lp[t])
        /\ lp[t].ncyc = 2
        /\ running
        /\ ~ctxDone[t]
        /\ stopCh \notin closed
        /\ m.pollErrorCount = 1

\* the symbols of the quotes GetPrices returned to the cycle of t
QuotedNames(t) == {lp[t].cyc.prices[i].Symbol : i \in 1..Len(lp[t].cyc.prices)}

\* the symbols of the points in the batch of the cycle of t
BatchNames(t) == {lp[t].cyc.batch[i].Symbol : i \in 1..Len(lp[t].cyc.batch)}

\* the cycle of t has built its batch (GetPrices succeeded)
BatchBuilt(t) ==
    \/ lp[t].pc = "persist"
    \/ lp[t].pc = "polled" /\ lp[t].cyc.path \in {"nobatch", "ok", "persistfail"}

\* C11: once the batch is built, it holds a point for a symbol exactly when
\* the symbol is in the active list of this cycle and among the quotes
\* GetPrices returned, each point carrying the ID of its active symbol; a
\* quote for a symbol outside the active list, or a missing quote for an
\* active symbol, produces no error: any non-empty batch goes to CreateBatch,
\* and when CreateBatch succeeds the whole batch is persisted and the cycle
\* records success and returns nil.
C11_BatchIsActiveAndQuoted ==
    \A t \in Starters :
        /\ BatchBuilt(t) =>
              /\ BatchNames(t) = ActiveNames(lp[t].cyc.symbols) \cap QuotedNames(t)
              /\ Len(lp[t].cyc.batch) <= Len(lp[t].cyc.prices)
              /\ \A i \in 1..Len(lp[t].cyc.batch) :
                    \E j \in 1..Len(lp[t].cyc.symbols) :
                        /\ lp[t].cyc.symbols[j].Name = lp[t].cyc.batch[i].Symbol
                        /\ lp[t].cyc.symbols[j].ID = lp[t].cyc.batch[i].SymbolID
              /\ (lp[t].pc = "persist") = (lp[t].cyc.batch # <<>> /\ lp[t].cyc.path = "none")
        /\ Polled(t, "ok") =>
              /\ lp[t].cyc.persisted = lp[t].cyc.batch
              /\ lp[t].cyc.batch # <<>>
              /\ lp[t].cyc.recS = 1
              /\ lp[t].cyc.recE = 0
              /\ lp[t].cyc.ret = NoErr

\* a quote is missing for an active symbol and the one remaining point is stored
C11_Witness ==
    \E t \in Starters :
        /\ Polled(t, "ok")
        /\ ActiveNames(lp[t].cyc.symbols) = {"BTCUSDT", "ETHUSDT"}
        /\ QuotedNames(t) = {"BTCUSDT"}
        /\ Len(lp[t].cyc.persisted) = 1

\* no quote GetPrices returned is for an active symbol
NoMatch(t) == ActiveNames(lp[t].cyc.symbols) \cap QuotedNames(t) = {}

\* C12: when the active list is non-empty, GetPrices succeeded and no quote
\* matches an active symbol (also when there are no quotes at all), the cycle
\* does not reach CreateBatch and returns nil having recorded one success and
\* no failure; a cycle that does reach CreateBatch has a matching quote.
C12_NoMatchIsSuccessWithoutStore ==
    \A t \in Starters :
        /\ (BatchBuilt(t) /\ NoMatch(t)) =>
              /\ Polled(t, "nobatch")
              /\ lp[t].cyc.symbols # <<>>
              /\ lp[t].cyc.recS = 1
              /\ lp[t].cyc.recE = 0
              /\ m.pollSuccessCount = lp[t].cyc.m0.pollSuccessCount + 1
              /\ m.pollErrorCount = lp[t].cyc.m0.pollErrorCount
              /\ lp[t].cyc.stCalls = 0
              /\ lp[t].cyc.persisted = <<>>
              /\ lp[t].cyc.ret = NoErr
        /\ Polled(t, "nobatch") => NoMatch(t)

C12_Witness ==
    \E t \in Starters :
        /\ Polled(t, "nobatch")
        /\ QuotedNames(t) = {"XRPUSDT"}
        /\ lp[t].cyc.symbols # <<>>
        /\ lp[t].cyc.stCalls = 0

\* C13: when CreateBatch fails (the batch is then non-empty), the cycle
\* records one failure and no success, the success counter is what it was
\* when the cycle began, nothing of the batch counts as persisted, and
\* PollPrices returns the error of CreateBatch.
C13_PersistFailureIsFailedOutcome ==
    \A t \in Starters :
        Polled(t, "persistfail") =>
            /\ lp[t].cyc.batch # <<>>
            /\ lp[t].cyc.stCalls = 1
            /\ lp[t].cyc.recE = 1
            /\ lp[t].cyc.recS = 0
            /\ m.pollErrorCount = lp[t].cyc.m0.pollErrorCount + 1
            /\ m.pollSuccessCount = lp[t].cyc.m0.pollSuccessCount
            /\ lp[t].cyc.persisted = <<>>
            /\ lp[t].cyc.ret = StoreErr

C13_Witness ==
    \E t \in Starters :
        /\ Polled(t, "persistfail")
        /\ lp[t].cyc.m0.pollSuccessCount = 1
        /\ m.pollSuccessCount = 1
        /\ lp[t].pollErr = "none"

\* GetPrices failed in the cycle of t and no request was answered with a
\* terminal error: every request was answered with a retryable failure
AllAnswersRetryable(t) ==
    /\ Polled(t, "fetchfail")
    /\ lp[t].cyc.ret.tag # "plain"

\* one failed outcome and nothing else was recorded by the cycle of t
OneFailureRecorded(t) ==
    /\ lp[t].cyc.recE = 1
    /\ lp[t].cyc.recS = 0
    /\ m.pollErrorCount = lp[t].cyc.m0.pollErrorCount + 1
    /\ m.pollSuccessCount = lp[t].cyc.m0.pollSuccessCount

\* C14 as stated: in a cycle where the exchange answers every request with a
\* retryable failure and MaxRetries = 2, the exchange is called exactly 3
\* times and exactly one failure is recorded. (Cycles in which GetPrices was
\* ended by the context are looked at only when the context became done
\* while retry.Do was blocked in a backoff wait, so that every request made
\* before was made on a live context.)
C14_AsStated ==
    \A t \in Starters :
        (/\ AllAnswersRetryable(t)
         /\ cfg.MaxRetries = 2
         /\ lp[t].cyc.ret.tag = "ctx" => lp[t].cyc.woken = "ctx")
            => (lp[t].cyc.exCalls = 3 /\ OneFailureRecorded(t))

\* C14, amended: in such a cycle, when moreover the context of the cycle is
\* neither cancelled nor past its deadline by the time GetPrices returns, the
\* exchange is called exactly MaxRetries + 1 times (3 for MaxRetries = 2);
\* in any case exactly one failure and no success is recorded.
C14_ExhaustedRetriesInCycle ==
    \A t \in Starters :
        AllAnswersRetryable(t) =>
            /\ OneFailureRecorded(t)
            /\ lp[t].cyc.exCalls <= cfg.MaxRetries + 1
            /\ lp[t].pollErr = "none" =>
                  /\ lp[t].cyc.exCalls = cfg.MaxRetries + 1
                  /\ lp[t].cyc.ret.tag = "retryable"
                  /\ lp[t].cyc.ret.id = cfg.MaxRetries + 1

C14_Witness ==
    \E t \in Starters :
        /\ AllAnswersRetryable(t)
        /\ lp[t].pollErr = "none"
        /\ cfg.MaxRetries = 2
        /\ lp[t].cyc.exCalls = 3
        /\ lp[t].cyc.recE = 1

\* the capture timestamps of the points in sequence b
Stamps(b) == {b[i].Timestamp : i \in 1..Len(b)}

\* C29: the points of the batch a cycle built, and the points it persisted,
\* all carry one timestamp, which is the time read when GetPrices had
\* returned: not before the cycle's start and not after the current time.
C29_OneTimestampPerBatch ==
    \A t \in Starters :
        /\ Cardinality(Stamps(lp[t].cyc.batch)) <= 1
        /\ Cardinality(Stamps(lp[t].cyc.persisted)) <= 1
        /\ \A ts \in Stamps(lp[t].cyc.batch) \cup Stamps(lp[t].cyc.persisted) :
              /\ ts >= lp[t].cyc.start
              /\ ts <= clock
        /\ (lp[t].pc = "persist" /\ clock = lp[t].cyc.start)
              => Stamps(lp[t].cyc.batch) = {clock}

\* two points were persisted, stamped with the time after the fetch, which
\* is later than the cycle's start
C29_Witness ==
    \E t \in Starters :
        /\ Polled(t, "ok")
        /\ Len(lp[t].cyc.persisted) = 2
        /\ Stamps(lp[t].cyc.persisted) = {MaxClock}
        /\ lp[t].cyc.start < MaxClock

(***************************************************************************)
(* Claims about Poller.Start and Poller.Stop (checked under SpecPoller)    *)
(***************************************************************************)
\* the Start call of t is past the running check and has not returned: it
\* owns the loop
OwnsLoop(t) == lp[t].pc \notin {"idle", "returned"}

\* C15: under every interleaving of Start calls at most one call owns the
\* loop at a time, and it does so only while running is set; a Start call
\* that finds the poller running returns nil at once, having run no cycle,
\* and leaves running, both channels and the metrics as they were.
C15_OneLoopAtATime ==
    /\ [](/\ Cardinality({t \in Starters : OwnsLoop(t)}) <= 1
          /\ \A t \in Starters :
                /\ OwnsLoop(t) => running
                /\ (lp[t].pc = "returned" /\ lp[t].noop)
                      => (lp[t].ncyc = 0 /\ lp[t].ret = NoErr))
    /\ [][\A t \in Starters :
            (~OwnsLoop(t) /\ running /\ lp'[t] # lp[t])
                => /\ lp'[t].pc = "returned"
                   /\ lp'[t].noop
                   /\ lp'[t].ncyc = 0
                   /\ UNCHANGED <<running, stopCh, doneCh, closed, m>>]_vars

C15_Witness ==
    \E t1, t2 \in Starters :
        /\ t1 # t2
        /\ InCycle(lp[t1])
        /\ running
        /\ lp[t2].pc = "returned"
        /\ lp[t2].noop

\* the step is the return of a Start call of t that launched a loop
StartReturns(t) ==
    /\ lp[t].pc # "returned"
    /\ lp'[t].pc = "returned"
    /\ ~lp'[t].noop

\* C16 as stated: a Start call that launched the loop returns to its caller
\* while the poller is still running (IsRunning() is true as it returns).
C16_AsStated ==
    [][\A t \in Starters : StartReturns(t) => running']_vars

\* C16, amended: a Start call that launched the loop runs the loop itself
\* and returns only when the loop has ended: it returns from the step that
\* clears running, after at least one cycle and after doneCh was closed, and
\* IsRunning() is false as it returns.
C16_StartReturnsWhenLoopEnded ==
    [][\A t \in Starters :
          StartReturns(t)
              => /\ lp[t].pc = "exit_lock"
                 /\ lp[t].ncyc >= 1
                 /\ running
                 /\ ~running'
                 /\ doneCh \in closed
                 /\ doneCh' = doneCh]_vars

C16_Witness ==
    \E t \in Starters :
        /\ lp[t].pc = "returned"
        /\ ~lp[t].noop
        /\ ~running
        /\ doneCh \in closed
        /\ lp[t].ret = NoErr


\* the step begins a cycle of t's loop
CycleBegins(t) == lp'[t].ncyc > lp[t].ncyc

\* C17: the first cycle of a loop is the one step Start takes after creating
\* its ticker, whatever the state of the context, the stop channel and the
\* ticker; a loop reaches its select only after that cycle; and every later
\* cycle begins at the select by consuming a pending tick.
C17_FirstCycleImmediateLaterOnTick ==
    /\ [](\A t \in Starters :
            lp[t].pc \in {"select", "close_done", "exit_lock"} => lp[t].ncyc >= 1)
    /\ [][\A t \in Starters :
            /\ (lp[t].pc = "ticker" /\ lp'[t] # lp[t])
                  => (CycleBegins(t) /\ lp'[t].ncyc = 1 /\ lp'[t].pc = "list")
            /\ CycleBegins(t)
                  => \/ lp[t].pc = "ticker" /\ lp[t].ncyc = 0
                     \/ /\ lp[t].pc = "select"
                        /\ lp[t].ncyc >= 1
                        /\ lp[t].tick
                        /\ ~lp'[t].tick]_vars

\* the first cycle is running although the context is cancelled, the stop
\* channel is closed and no tick has come
C17_Witness ==
    \E t \in Starters :
        /\ lp[t].pc = "list"
        /\ lp[t].ncyc = 1
        /\ ~lp[t].tick
        /\ ctxDone[t]
        /\ stopCh \in closed


\* the step is the return of a Stop call of q that found the poller running
StopReturns(q) ==
    /\ sp[q].pc = "stop_wait"
    /\ sp'[q].pc = "returned"

\* the step is a Stop call of q that found the poller not running
StopNoop(q) ==
    /\ stops' # stops
    /\ sp'[q].pc = "returned"
    /\ sp'[q].noop

\* the loop that listens on the stop channel q's call closed has closed its
\* done channel
ExitSignalled(q) == DoneOf(sp[q].sig) \in closed

\* C18 as stated: Stop returns the deadline-exceeded error only when the loop
\* it signalled has not signalled its exit, and nil otherwise; a Stop call
\* that finds the poller not running returns nil and changes nothing.
C18_AsStated ==
    [][\A q \in Stoppers :
          /\ StopReturns(q)
                => /\ sp'[q].ret = CtxError("DeadlineExceeded") => ~ExitSignalled(q)
                   /\ ExitSignalled(q) => sp'[q].ret = NoErr
          /\ StopNoop(q)
                => /\ sp'[q].ret = NoErr
                   /\ UNCHANGED <<running, stopCh, doneCh, pmu, closed, nextChan, lp>>]_vars


\* the stop channel the running loop listens on has been closed by Stop
StopSignalled == running /\ stopCh \in closed

\* C19 as stated: the step by which Stop signals the loop leaves an in-flight
\* cycle and its context alone, and once the loop is signalled it begins no
\* further cycle, whether or not a tick is pending.
C19_AsStated ==
    [][\A t \in Starters :
          /\ (InLoop(lp[t]) /\ stopCh \in closed' /\ stopCh \notin closed)
                => (lp'[t] = lp[t] /\ ctxDone'[t] = ctxDone[t])
          /\ (InLoop(lp[t]) /\ StopSignalled) => ~CycleBegins(t)]_vars

\* C20 as stated: once the context passed to Start is cancelled the running
\* loop begins no new cycle, whether or not a tick is pending, and unless Stop
\* has signalled it as well, Start returns the cancellation error.
C20_AsStated ==
    [][\A t \in Starters :
          /\ (InLoop(lp[t]) /\ ctxDone[t]) => ~CycleBegins(t)
          /\ (StartReturns(t) /\ ctxDone[t] /\ stopCh \notin closed)
                => lp'[t].ret = CtxError("Canceled")]_vars


\* the step takes t's loop out of its select towards its exit
LoopLeaves(t) == lp[t].pc = "select" /\ lp'[t].pc = "close_done"

\* C21 as stated: when the context is cancelled and the stop channel closed
\* as the loop evaluates its select, the loop leaves by the cancellation
\* branch, so that Start will return the cancellation error, never nil.
C21_AsStated ==
    [][\A t \in Starters :
          (LoopLeaves(t) /\ ctxDone[t] /\ stopCh \in closed)
              => lp'[t].ret = CtxError("Canceled")]_vars


\* PollPrices of t's cycle has returned an error to poll
CycleFailed(t) == lp[t].pc = "polled" /\ lp[t].cyc.ret # NoErr

\* C22: while a cycle's error is being returned the poller is running, the
\* loop goes from it to its select with running unchanged, and the loop
\* leaves its select for its exit, and running is later cleared, only with
\* the stop channel closed or the Start context cancelled.
C22_CycleErrorNeverEndsLoop ==
    /\ [](\A t \in Starters :
            /\ CycleFailed(t) => running
            /\ lp[t].pc \in {"close_done", "exit_lock"}
                  => (ctxDone[t] \/ stopCh \in closed))
    /\ [][/\ \A t \in Starters :
               /\ (CycleFailed(t) /\ lp'[t].pc # lp[t].pc)
                     => (lp'[t].pc = "select" /\ running' /\ lp'[t].ret = NoErr)
               /\ LoopLeaves(t) => (ctxDone[t] \/ stopCh \in closed)
               /\ (OwnsLoop(t) /\ ~OwnsLoop(t)')
                     => (ctxDone[t] \/ stopCh \in closed)
          /\ (running /\ ~running')
               => \E t \in Starters :
                     lp[t].pc = "exit_lock" /\ (ctxDone[t] \/ stopCh \in closed)]_vars

\* the second cycle of a loop has failed in GetPrices after the first had
\* failed as well, and the poller is running with no signal raised
C22_Witness ==
    \E t \in Starters :
        /\ Polled(t, "fetchfail")
        /\ lp[t].ncyc = 2
        /\ m.pollErrorCount = 2
        /\ running
        /\ ~ctxDone[t]
        /\ stopCh \notin closed


\* the Start callers whose loop is inside poll (PollPrices in progress or
\* just returned)
Polling == {t \in Starters : InCycle(lp[t]) \/ lp[t].pc = "polled"}

\* C23: at most one PollPrices call of the poller is in progress at any
\* time, and a cycle begins only when no other caller's cycle is in progress.
C23_CyclesNeverOverlap ==
    /\ [](Cardinality(Polling) <= 1)
    /\ [][\A t \in Starters : CycleBegins(t) => Polling \subseteq {t}]_vars

\* a cycle of a second loop is in progress after the first loop was stopped
\* by Stop and its Start returned nil
C23_Witness ==
    \E t1, t2 \in Starters :
        /\ t1 # t2
        /\ lp[t1].pc = "returned"
        /\ ~lp[t1].noop
        /\ lp[t1].ret = NoErr
        /\ InCycle(lp[t2])
        /\ stops >= 1


(***************************************************************************)
(* Claims about the cycle deadline (checked under SpecDeadline)            *)
(***************************************************************************)
\* the larger of a and b
Larger(a, b) == CHOOSE v \in {a, b} : v >= a /\ v >= b

\* C24: while a cycle runs, its deadline is the cycle's start plus
\* max(interval/2, 5 s), pollCtx does not expire before that instant, and
\* every cycle of the poller has used that same timeout.
C24_DeadlineIsMaxOfHalfIntervalAnd5s ==
    /\ tm.pc = "polling"
          => /\ tm.deadline - tm.start = Larger(TruncDiv(tm.interval, 2), 5 * Second)
             /\ tm.pollCtx = "DeadlineExceeded" => tm.now >= tm.deadline
    /\ tm.used \subseteq {Larger(TruncDiv(tm.interval, 2), 5 * Second)}
    /\ tm.npoll > 0 => tm.interval > 0

\* the second cycle of a poller whose interval is under 10 s has run into
\* its deadline
C24_Witness ==
    /\ tm.pc = "polling"
    /\ tm.npoll = 1
    /\ tm.interval > 0
    /\ tm.interval < 2 * 5 * Second
    /\ tm.pollCtx = "DeadlineExceeded"
    /\ tm.now = tm.start + 5 * Second


(***************************************************************************)
(* Claims about CreateBatch (checked under SpecRepo)                       *)
(***************************************************************************)
\* of the rows in set s, those of the batch of call c
RowsOf(s, c) == {row \in s : row.call = c}

\* set s holds none of the points of any batch, or all of them
AllOrNothing(s) ==
    \A row \in s : RowsOf(s, row.call) = {[call |-> row.call, idx |-> i, n |-> row.n] : i \in 1..row.n}

\* C25: the table, and what any query of it returned, never hold part of a
\* batch; when CreateBatch has returned nil every point of its batch is in
\* the table, and when it has returned an error none is.
C25_BatchAllOrNothing ==
    /\ AllOrNothing(repo.rows)
    /\ AllOrNothing(repo.seen)
    /\ (repo.pc = "returned" /\ repo.ret = NoErr)
          => Cardinality(RowsOf(repo.rows, repo.calls)) = repo.n
    /\ (repo.pc = "returned" /\ repo.ret # NoErr)
          => RowsOf(repo.rows, repo.calls) = {}
    /\ repo.pc = "returned" => repo.pending = {}

\* the second call failed at its last point after the others were
\* inserted, while the batch of the first call is stored
C25_Witness ==
    /\ repo.pc = "rollback"
    /\ repo.ret # NoErr
    /\ repo.calls = 2
    /\ repo.i = repo.n
    /\ Cardinality(repo.pending) = repo.n - 1
    /\ repo.n >= 2
    /\ RowsOf(repo.rows, 1) # {}
    /\ RowsOf(repo.rows, 2) = {}


(***************************************************************************)
(* Claims about Client.GetPrices (checked under SpecClient)                *)
(***************************************************************************)
\* the answer is a network error, a 429 or a status of 500 and above
Transient(x) == x.kind = "neterr" \/ x.status = 429 \/ x.status >= 500

\* the answer is any other status than 200, or a 200 whose body does not
\* decode
Permanent(x) == ~Transient(x) /\ (x.status # 200 \/ ~x.decodes)

\* the last answer received
LastAnswer == gp.reqs[Len(gp.reqs)]

\* C26: every request that was followed by another was answered with a
\* network error, a 429 or a status >= 500; at most MaxRetries + 1 requests
\* are sent; while the context is live a call whose last answer is of that
\* kind returns only once MaxRetries + 1 requests were sent; an answer of
\* any other non-200 status or with an undecodable body ends the call with
\* that request's error; and answers 429, 429, 200 give a nil error after
\* exactly 3 requests.
C26_TransientRetriedPermanentReturned ==
    /\ Len(gp.reqs) <= cfg.MaxRetries + 1
    /\ \A i \in 1..(Len(gp.reqs) - 1) : Transient(gp.reqs[i])
    /\ (gp.reqs # <<>> /\ Transient(LastAnswer) /\ ctxErr = "none" /\ gp.pc = "returned")
          => /\ Len(gp.reqs) = cfg.MaxRetries + 1
             /\ gp.ret = NewRetryableError(Len(gp.reqs))
    /\ (gp.reqs # <<>> /\ Permanent(LastAnswer))
          => /\ do.pc = "done"
             /\ do.ret = PlainError(Len(gp.reqs))
             /\ gp.pc = "returned" => gp.ret = PlainError(Len(gp.reqs))
    /\ (/\ gp.pc = "returned"
        /\ Len(gp.reqs) >= 3
        /\ gp.reqs[1].status = 429
        /\ gp.reqs[2].status = 429
        /\ gp.reqs[3].status = 200
        /\ gp.reqs[3].decodes)
          => (gp.ret = NoErr /\ Len(gp.reqs) = 3)

\* two 429 answers and a 200 answer with a quote: GetPrices has returned the
\* quote
C26_Witness ==
    /\ gp.pc = "returned"
    /\ Len(gp.reqs) = 3
    /\ gp.reqs[1].status = 429
    /\ gp.reqs[2].status = 429
    /\ gp.reqs[3].status = 200
    /\ gp.ret = NoErr
    /\ Len(gp.result) = 1

\* C27: a GetPrices call for no symbols never calls retry.Do and never sends
\* a request, and returns an empty list and a nil error.
C27_NoSymbolsNoRequest ==
    gp.symbols = <<>>
        => /\ gp.pc \in {"idle", "returned"}
           /\ ~gp.entered
           /\ do = DoIdle
           /\ gp.reqs = <<>>
           /\ gp.pc = "returned" => (gp.result = <<>> /\ gp.ret = NoErr)

C27_Witness ==
    /\ gp.symbols = <<>>
    /\ gp.pc = "returned"
    /\ gp.ret = NoErr
    /\ cfg.MaxRetries = MaxRetriesBound


(***************************************************************************)
(* Claim about the loop after a timed-out Stop (checked under              *)
(* SpecPollerFair)                                                         *)
(***************************************************************************)
\* the last Stop call of q gave up waiting and returned the timeout error
StopTimedOut(q) ==
    /\ sp[q].pc = "returned"
    /\ sp[q].ret = CtxError("DeadlineExceeded")

\* a loop that has made its channels is alive and its stop channel is closed
SignalledLoopAlive ==
    /\ stopCh \in closed
    /\ \E t \in Starters : lp[t].pc \notin {"idle", "returned", "mk_stop", "mk_done"}

\* the loop has raised its done signal and the poller is not running
LoopGone == ~running /\ doneCh \in closed

\* C30: when a Stop call has returned the timeout error while the loop it
\* signalled is still running, then, unless a further Stop call is made, the
\* loop eventually closes its done channel and running becomes false.
C30_LoopExitsAfterStopTimeout ==
    \A n \in 1..MaxStops :
        ((\E q \in Stoppers : StopTimedOut(q)) /\ SignalledLoopAlive /\ stops = n)
            ~> (LoopGone \/ stops > n)

\* Stop has timed out while a cycle of the loop it signalled is in flight
C30_Witness ==
    \E q \in Stoppers, t \in Starters :
        /\ StopTimedOut(q)
        /\ SignalledLoopAlive
        /\ InCycle(lp[t])
        /\ lp[t].ncyc >= 1


(***************************************************************************)
(* Claim about the suspension points of a cycle (checked under             *)
(* SpecStopCycle)                                                          *)
(***************************************************************************)
\* t's loop is blocked in the select of a retry backoff: no case was ready
\* and none has become ready since
BlockedInBackoff(t) ==
    /\ lp[t].pc = "fetch"
    /\ lp[t].do.pc = "parked"
    /\ lp[t].do.woken = "none"

\* C31 as stated: the loop is never left blocked in a retry backoff once the
\* stop channel is closed or the context cancelled.
C31_AsStated ==
    \A t \in Starters :
        (ctxDone[t] \/ stopCh \in closed) => ~BlockedInBackoff(t)


\* C31, amended: at the ticker wait either signal makes a case of the select
\* ready; in a retry backoff the loop is never left blocked once the Start
\* context is cancelled, and a select evaluated then does not block; a
\* ListActive, exchange or CreateBatch call awaited on the cancelled context
\* ends in failure. The stop signal is not among the cases of the backoff
\* select and does not end these waits.
C31_WaitsEndOnTheirSignals ==
    /\ [](\A t \in Starters :
            /\ (lp[t].pc = "select" /\ ctxDone[t])
                  => "ctx" \in LoopReady(lp[t], ctxDone[t], stopCh \in closed)
            /\ (lp[t].pc = "select" /\ stopCh \in closed)
                  => "stop" \in LoopReady(lp[t], ctxDone[t], stopCh \in closed)
            /\ (InCycle(lp[t]) /\ ctxDone[t])
                  => (lp[t].pollErr # "none" /\ ~BlockedInBackoff(t)))
    /\ [][\A t \in Starters :
            /\ (lp[t].pc = "fetch" /\ lp[t].do.pc = "select" /\ ctxDone[t])
                  => lp'[t].do.pc # "parked"
            /\ (lp[t].pc = "list" /\ ctxDone[t] /\ lp'[t].pc # "list")
                  => lp'[t].cyc.path = "listfail"
            /\ (lp[t].pc = "fetch" /\ lp[t].do.pc = "call" /\ ctxDone[t]
                   /\ lp'[t].do # lp[t].do)
                  => (lp'[t].do.lastErr # NoErr /\ lp'[t].do.pc # "done")
            /\ (lp[t].pc = "persist" /\ ctxDone[t] /\ lp'[t].pc # "persist")
                  => lp'[t].cyc.path = "persistfail"
            /\ (BlockedInBackoff(t) /\ ~ctxDone[t] /\ lp'[t].do # lp[t].do)
                  => (lp'[t].do.timerReady \/ ctxDone'[t])]_vars

\* a backoff wait that the stop signal had left blocked has been ended by
\* the cancellation of the context
C31_Witness ==
    \E t \in Starters :
        /\ lp[t].pc = "fetch"
        /\ lp[t].do.pc = "parked"
        /\ lp[t].do.woken = "ctx"
        /\ ctxDone[t]
        /\ stopCh \in closed


(***************************************************************************)
(* Further claims about retry.Do (checked under SpecRetry)                 *)
(***************************************************************************)
\* Do is in the backoff wait that follows a retryable failure which fn
\* returned on a context that was cancelled already
WaitsWithCtxCancelled ==
    /\ do.pc \in {"select", "parked"}
    /\ do.ctxAtReturn # "none"

\* C32 as stated: when the context was cancelled already as the retryable
\* failure was returned, the backoff wait that follows is never left for a
\* further attempt, and Do leaves it returning the cancellation error.
C32_AsStated ==
    [][WaitsWithCtxCancelled
          => /\ do'.pc # "call"
             /\ do'.pc = "done" => do'.ret = CtxError(ctxErr)]_vars


\* InitialBackoff * Multiplier^(i-1)
Grown(c, i) == c.InitialBackoff * Pow(c.Multiplier, i - 1)

Smaller(a, b) == IF a <= b THEN a ELSE b

\* C33: for an attempt index i >= 1 and a policy with non-negative durations
\* and Multiplier >= 1, the backoff computed before jitter is
\* min(InitialBackoff * Multiplier^(i-1), MaxBackoff); it exceeds neither of
\* the two and is no smaller than the one of attempt i-1.  Without jitter it
\* is the backoff Do waits for.
C33_PreJitterBackoffIsCappedGrowth ==
    (/\ do.pc \in {"select", "parked"}
     /\ cfg.InitialBackoff >= 0 /\ cfg.MaxBackoff >= 0 /\ cfg.Multiplier >= 1)
    => LET i == do.attempt
           b == BaseBackoff(cfg, i)
       IN  /\ i >= 1
           /\ b = Smaller(Grown(cfg, i), cfg.MaxBackoff)
           /\ b <= cfg.MaxBackoff
           /\ b <= Grown(cfg, i)
           /\ i > 1 => BaseBackoff(cfg, i - 1) <= b
           /\ cfg.Jitter = 0 => do.backoff = b

\* the second backoff of a policy whose growth passed MaxBackoff
C33_Witness ==
    /\ do.pc = "select"
    /\ do.attempt = 2
    /\ cfg.Jitter = 0
    /\ Grown(cfg, 1) < Grown(cfg, 2)
    /\ Grown(cfg, 2) > cfg.MaxBackoff
    /\ do.backoff = cfg.MaxBackoff


\* C35 as stated: whatever MaxRetries is (negative included), Do returns nil
\* only when the work function was invoked and its last invocation returned
\* nil.
C35_AsStated ==
    (do.pc = "done" /\ do.ret = NoErr)
        => /\ Len(results) >= 1
           /\ results[Len(results)] = NoErr


(***************************************************************************)
(* Further claims about Poller.Start and Poller.Stop (checked under        *)
(* SpecPoller)                                                             *)
(***************************************************************************)
\* the step is the return of t's Start call from a loop that has ended
LoopReturns(t) == lp[t].pc = "exit_lock" /\ lp'[t].pc = "returned"

\* the step is a Start call that finds the poller idle
StartFindsIdle == starts' = starts + 1 /\ ~running

\* C34: when a loop has exited, by Stop or by cancellation, the poller is idle
\* again (running is false as Start returns, and it is false whenever no
\* Start call owns the loop).  A later Start call claims the loop with a live
\* context and a stop channel of its own that nobody has closed, runs a cycle
\* before it first looks at its signals, and leaves only by its select, when
\* its context is cancelled or that new channel is closed: the closed stop
\* channel of the previous loop does not end it.
C34_RestartAfterExit ==
    /\ []((\A t \in Starters : ~OwnsLoop(t)) => ~running)
    /\ [][/\ StartFindsIdle
             => /\ running'
                /\ \E t \in Starters :
                      ~OwnsLoop(t) /\ lp'[t].pc = "mk_stop" /\ ~ctxDone'[t]
          /\ \A t \in Starters :
                /\ LoopReturns(t) => ~running'
                /\ (lp[t].pc = "mk_stop" /\ lp'[t] # lp[t])
                      => /\ lp'[t].pc = "mk_done"
                         /\ stopCh' # stopCh
                         /\ stopCh' \notin closed'
                /\ (lp[t].pc = "mk_done" /\ lp'[t] # lp[t]) => lp'[t].pc = "ticker"
                /\ (lp[t].pc = "ticker" /\ lp'[t] # lp[t]) => InCycle(lp'[t])
                /\ (OwnsLoop(t) /\ lp[t].pc # "mk_stop") => stopCh' = stopCh
                /\ (InLoop(lp[t]) /\ ~InLoop(lp'[t]))
                      => /\ lp[t].pc = "select"
                         /\ lp[t].ncyc >= 1
                         /\ ctxDone[t] \/ stopCh \in closed]_vars

\* a second loop waits in its select, running on a live context, after Stop
\* ended the first one: the first loop's stop and done channels are closed
C34_Witness ==
    \E t \in Starters :
        /\ lp[t].pc = "select"
        /\ running
        /\ ~ctxDone[t]
        /\ stopCh \notin closed
        /\ stopCh = nextChan - 2
        /\ (stopCh - 2) \in closed
        /\ (doneCh - 2) \in closed
        /\ \E q \in Stoppers : sp[q].pc = "returned" /\ ~sp[q].noop /\ sp[q].ret = NoErr


\* C36 as stated: when a Stop call that signalled a running loop returns nil,
\* running is false already (so that a Start made right after it launches a
\* loop).
C36_AsStated ==
    [][\A q \in Stoppers :
          (StopReturns(q) /\ sp'[q].ret = NoErr) => ~running']_vars


\* the step is a close of the stop channel by a Stop call of q
StopCloses(q) == sp[q].pc = "close_stop" /\ (sp'[q] # sp[q] \/ panicked')

\* C37 as stated: under every interleaving of repeated and concurrent Stop
\* calls, a second one after a first one timed out included, no Stop call
\* closes a stop channel that is closed already.
C37_AsStated ==
    /\ [][\A q \in Stoppers : StopCloses(q) => stopCh \notin closed]_vars
    /\ [](\A q \in Stoppers : sp[q].pc = "close_stop" => ~panicked)


(***************************************************************************)
(* Further claims about PollPrices (checked under Spec)                    *)
(***************************************************************************)
\* C38: a PollPrices call that has returned returns a non-nil error exactly
\* when it recorded a failed outcome in that cycle (RecordPollError was called
\* and pollErrorCount is one higher than when the cycle began), and returns
\* nil exactly when it recorded a successful outcome or took the
\* empty-universe path, which records nothing.
C38_ErrorIffFailureRecorded ==
    \A t \in Starters :
        lp[t].pc = "polled"
            => LET c == lp[t].cyc
               IN  /\ c.ret # NoErr
                         <=> (/\ c.recE = 1
                              /\ m.pollErrorCount = c.m0.pollErrorCount + 1)
                   /\ c.ret = NoErr
                         <=> \/ /\ c.recS = 1
                                /\ m.pollSuccessCount = c.m0.pollSuccessCount + 1
                             \/ /\ c.path = "empty"
                                /\ RecCalls(t) = 0
                                /\ m = c.m0

\* a cycle returns the store's error after a cycle returned nil on success
C38_Witness ==
    \E t \in Starters :
        /\ Polled(t, "persistfail")
        /\ lp[t].cyc.ret = StoreErr
        /\ lp[t].cyc.recE = 1
        /\ lp[t].cyc.m0.pollSuccessCount = 1


(***************************************************************************)
(* Further claims about MetricsService (checked under SpecMetrics)         *)
(***************************************************************************)
RECURSIVE SumPassed(_)
\* the sum of the durations the callers in S have passed to record calls
SumPassed(S) ==
    IF S = {} THEN 0
    ELSE LET w == CHOOSE x \in S : TRUE
         IN  mth[w].passed + SumPassed(S \ {w})

ValidInterval(i) == i >= 5 * Second /\ i <= 24 * 3600 * Second

\* a cycle that was begun by a tick of the ticker is running
CycleOnTick == tm.pc = "polling" /\ tm.onTick # NoTime

\* C40 as stated: for an interval Config.Validate accepts, the timeout
\* max(interval/2, 5 s) is no longer than the interval, so the deadline of a
\* cycle begun by a tick is no later than the instant the next tick is due.
C40_AsStated ==
    ValidInterval(tm.interval)
        => /\ pollTimeout(tm.interval) <= tm.interval
           /\ CycleOnTick => tm.deadline <= tm.onTick + tm.interval

\* C40, amended: for an interval Config.Validate accepts, the timeout
\* max(interval/2, 5 s) is no longer than the interval, so the deadline of
\* every cycle is no later than one interval after the cycle's own start; a
\* cycle that takes its tick at the instant the tick fired has reached its
\* deadline by the time the next tick is due.
C40_DeadlineWithinIntervalOfStart ==
    ValidInterval(tm.interval)
        => /\ pollTimeout(tm.interval) <= tm.interval
           /\ tm.pc = "polling" => tm.deadline <= tm.start + tm.interval
           /\ (CycleOnTick /\ tm.start = tm.onTick)
                 => /\ tm.deadline <= tm.onTick + tm.interval
                    /\ tm.now >= tm.onTick + tm.interval => tm.now >= tm.deadline

\* with an interval of 5 s a cycle that began at the instant of its tick is
\* at its deadline as the next tick is due
C40_Witness ==
    /\ tm.interval = 5 * Second
    /\ CycleOnTick
    /\ tm.start = tm.onTick
    /\ tm.now = tm.deadline
    /\ tm.now = tm.onTick + tm.interval
    /\ tm.pollCtx = "DeadlineExceeded"

====
